---- MODULE Spec2Model ----
(***************************************************************************)
(* Model of uiwrapper's AlertTable (alerts/components/table.py): the      *)
(* paginated row traversal, row lookup, column-value extraction and       *)
(* header sorting, run against a browser DOM that is the environment.     *)
(* Text is modelled as sequences of one-character strings, so that        *)
(* lower-casing, whitespace collapsing, replacement and substring tests   *)
(* are computed as the code computes them.                                *)
(***************************************************************************)
EXTENDS Integers, Sequences, FiniteSets, TLC

VARIABLES
    rows,          \* DOM: the table's rows, in on-screen order over all pages
    pageSize,      \* DOM: rows shown per page
    lastMode,      \* DOM: what the pager shows on the last page
    tableVisible,  \* DOM: whether the table container is displayed
    curPage,       \* DOM: the page the browser is showing
    headers,       \* DOM: the <th> cells, each with text and data-test-sort-dir
    colOp,         \* the last _column_value call and what it did
    lastOp,        \* the last call made on the AlertTable and what it did
    locators,      \* the component's Locator registry: name -> <<by, selector>>
    popup,         \* DOM: whether the delete confirmation popup is displayed
    modal,         \* DOM: whether the container's modal is displayed
    container,     \* the container object: its class and constructor flags
    config,        \* the pytest options the session's fixtures read
    helper,        \* the selenium_helper fixture: its phase, drivers, error
    item,          \* the test item: its phase reports and attachments
    logger,        \* class Logger: _instance, _lock and the objects built
    threads,       \* the threads calling Logger.get_logger: pc and result
    options        \* DOM: the option elements of the select's menu

vars == <<rows, pageSize, lastMode, tableVisible, curPage, headers, colOp,
          lastOp, locators, popup, modal, container,
          config, helper, item, logger, threads, options>>

tableVars == <<rows, pageSize, lastMode, tableVisible>>

hostVars == <<config, helper, item, logger, threads, options>>

\* the options as pytest_addoption registers them: --retry 3, --scope function
DefaultConfig == [retry |-> 3, scope |-> "function"]

\* the selenium_helper fixture before pytest has requested it
NoHelper ==
    [phase |-> "idle", scope |-> "", attempts |-> 0, events |-> <<>>,
     exc |-> [kind |-> "none", attempt |-> 0], driver |-> 0, outcomes |-> <<>>]

\* a test item no phase of which has run
NoItem ==
    [rep_setup |-> "absent", rep_call |-> "absent", phase |-> "collected",
     attached |-> <<>>, raised |-> FALSE, shotOk |-> FALSE]

\* class Logger as the class statement leaves it: no instance, lock free
NoLogger == [instance |-> 0, lock |-> 0, built |-> <<>>]

\* the session outside the operation under test
HostInit ==
    /\ config = DefaultConfig
    /\ helper = NoHelper
    /\ item = NoItem
    /\ logger = NoLogger
    /\ threads = <<>>
    /\ options = <<>>

(***************************************************************************)
(* Bounds of the model.                                                    *)
(***************************************************************************)
MaxRows == 3
MaxPageSize == 2
MaxHeaders == 2

(***************************************************************************)
(* Text.                                                                   *)
(***************************************************************************)
UpperChars == <<"A","B","C","D","E","F","G","H","I","J","K","L","M",
                "N","O","P","Q","R","S","T","U","V","W","X","Y","Z">>
LowerChars == <<"a","b","c","d","e","f","g","h","i","j","k","l","m",
                "n","o","p","q","r","s","t","u","v","w","x","y","z">>

UpperSet == {UpperChars[i] : i \in DOMAIN UpperChars}
LowerSet == {LowerChars[i] : i \in DOMAIN LowerChars}

LowerOf ==
    [c \in UpperSet |->
        LowerChars[CHOOSE i \in DOMAIN UpperChars : UpperChars[i] = c]]

UpperOf ==
    [c \in LowerSet |->
        UpperChars[CHOOSE i \in DOMAIN LowerChars : LowerChars[i] = c]]

LowerChar(c) == IF c \in UpperSet THEN LowerOf[c] ELSE c

UpperChar(c) == IF c \in LowerSet THEN UpperOf[c] ELSE c

\* str.lower()
Lower(s) == [i \in 1..Len(s) |-> LowerChar(s[i])]

\* str.replace(" ", "_")
ReplaceSpace(s) == [i \in 1..Len(s) |-> IF s[i] = " " THEN "_" ELSE s[i]]

IsWs(c) == c \in {" ", "\n", "\t"}

RECURSIVE LStrip(_)
LStrip(s) == IF s # <<>> /\ IsWs(Head(s)) THEN LStrip(Tail(s)) ELSE s

RECURSIVE RStrip(_)
RStrip(s) ==
    IF s # <<>> /\ IsWs(s[Len(s)]) THEN RStrip(SubSeq(s, 1, Len(s) - 1)) ELSE s

\* str.strip()
Strip(s) == RStrip(LStrip(s))

\* re.sub(r"\s+", " ", s)
RECURSIVE CollapseWs(_)
CollapseWs(s) ==
    IF s = <<>> THEN <<>>
    ELSE IF IsWs(Head(s)) THEN <<" ">> \o CollapseWs(LStrip(s))
    ELSE <<Head(s)>> \o CollapseWs(Tail(s))

\* AlertComponentAction.get_element_text, given the element's innerText
GetElementText(innerText) == Strip(CollapseWs(innerText))

\* Python's `value in text` on strings
IsSubstring(value, text) ==
    \E i \in 0..(Len(text) - Len(value)) :
        SubSeq(text, i + 1, i + Len(value)) = value

S_next == <<"n","e","x","t">>
S_prev == <<"p","r","e","v">>
S_status == <<"s","t","a","t","u","s">>
S_name == <<"n","a","m","e">>
S_Foo == <<"F","o","o">>
S_Bar == <<"B","a","r">>
S_foo == <<"f","o","o">>
S_FooBar == <<"F","o","o","B","a","r">>
S_FooWs == <<" ","F","o","o","\n">>
S_Enabled == <<"E","n","a","b","l","e","d">>
S_Name == <<"N","a","m","e">>
S_Status == <<"S","t","a","t","u","s">>
S_sta_tus == <<"s","t","a"," ","t","u","s">>
S_bogus == <<"b","o","g","u","s">>

(***************************************************************************)
(* The DOM of the table: rows, pages and the pager controls.               *)
(***************************************************************************)
Texts == {S_FooWs, S_FooBar, S_foo}
Values == {S_Foo, S_Bar}
Modes == {"nocontrols", "nonext", "hidden", "disabled"}

MkRows(names) ==
    [i \in 1..Len(names) |-> [id |-> i, name |-> names[i], status |-> S_Enabled]]

Min(S) == CHOOSE x \in S : \A y \in S : x <= y

\* a table with no rows still shows one (empty) page
NumPages ==
    IF Len(rows) = 0 THEN 1 ELSE (Len(rows) + pageSize - 1) \div pageSize

\* the <tr> elements found by the "rows" locator while page p is shown
PageRows(p) ==
    SubSeq(rows, (p - 1) * pageSize + 1, Min({p * pageSize, Len(rows)}))

Handles(rs) == [i \in 1..Len(rs) |-> rs[i].id]

Digits == <<"1","2","3","4","5","6","7","8","9">>

PrevControl(p) ==
    [innerText |-> <<"P","r","e","v">>, displayed |-> TRUE,
     enabled |-> p > 1, target |-> p - 1]

NumberControl(i) ==
    [innerText |-> <<Digits[i]>>, displayed |-> TRUE, enabled |-> TRUE,
     target |-> i]

NextControl(p) ==
    [innerText |-> <<"N","e","x","t"," ">>,
     displayed |-> ~(p = NumPages /\ lastMode = "hidden"),
     enabled |-> ~(p = NumPages /\ lastMode = "disabled"),
     target |-> p + 1]

\* the <a> elements found by the "switch_to_page" locator while page p is shown
PagerControls(p) ==
    IF p = NumPages /\ lastMode = "nocontrols" THEN <<>>
    ELSE <<PrevControl(p)>>
         \o [i \in 1..NumPages |-> NumberControl(i)]
         \o (IF p = NumPages /\ lastMode = "nonext"
             THEN <<>> ELSE <<NextControl(p)>>)

(***************************************************************************)
(* Exceptions, as the value of a result's exc field.                       *)
(***************************************************************************)
NoExc == "none"
Timeout == "TimeoutException"
NoSuchElement == "NoSuchElementException"
PageNotFound == "ValueError: page is not found"
RowNotFound == "ValueError: row not found in table"
SortFailed == "ValueError: Failed to sort"

IsValueError(e) == e \in {PageNotFound, RowNotFound, SortFailed}

(***************************************************************************)
(* Paging: _is_element_clickable, next_page, prev_page.                    *)
(***************************************************************************)
IsElementClickable(element) == element.displayed /\ element.enabled

\* next_page without its `if elements:` guard
TurnPage_NoEmptyGuard(p, label) ==
    LET elements == PagerControls(p)
        hits == {i \in DOMAIN elements :
                    Lower(GetElementText(elements[i].innerText)) = label}
    IN  IF hits = {}
        THEN [ret |-> "raised", exc |-> PageNotFound, clicked |-> FALSE, page |-> p]
        ELSE LET page == elements[Min(hits)] IN
             IF IsElementClickable(page)
             THEN [ret |-> "True", exc |-> NoExc, clicked |-> TRUE,
                   page |-> page.target]
             ELSE [ret |-> "False", exc |-> NoExc, clicked |-> FALSE, page |-> p]

\* next_page and prev_page differ only in the label they look for
TurnPage(p, label) ==
    IF ~tableVisible
    THEN [ret |-> "raised", exc |-> Timeout, clicked |-> FALSE, page |-> p]
    ELSE
    LET elements == PagerControls(p)
        hits == {i \in DOMAIN elements :
                    Lower(GetElementText(elements[i].innerText)) = label}
    IN  IF elements = <<>>
        THEN [ret |-> "False", exc |-> NoExc, clicked |-> FALSE, page |-> p]
        ELSE IF hits = {}
        THEN [ret |-> "raised", exc |-> PageNotFound, clicked |-> FALSE, page |-> p]
        ELSE LET page == elements[Min(hits)] IN
             IF IsElementClickable(page)
             THEN [ret |-> "True", exc |-> NoExc, clicked |-> TRUE,
                   page |-> page.target]
             ELSE [ret |-> "False", exc |-> NoExc, clicked |-> FALSE, page |-> p]

NextPage(p) == TurnPage(p, S_next)

PrevPage(p) == TurnPage(p, S_prev)

(***************************************************************************)
(* Column values: _column_value.                                           *)
(***************************************************************************)
\* the "status_column" locator, ' [data-test="status"]'
StatusSelector == <<"[data-test=status]">>

\* the table root selector followed by COLS.format(column), " td.cell-{}"
CellSelector(column) == <<"td.cell-">> \o column

\* str.replace(" ", "")
RECURSIVE RemoveSpace(_)
RemoveSpace(s) ==
    IF s = <<>> THEN <<>>
    ELSE IF Head(s) = " " THEN RemoveSpace(Tail(s))
    ELSE <<Head(s)>> \o RemoveSpace(Tail(s))

\* the normalisation dropping spaces in place of writing underscores
NormalizeColumn_DropSpace(column) == RemoveSpace(Lower(column))

\* column.lower().replace(" ", "_")
NormalizeColumn(column) == ReplaceSpace(Lower(column))

\* the selector _column_value looks the cell up with
ColumnSelector(column) ==
    LET c == NormalizeColumn(column) IN
    IF c = S_status THEN StatusSelector ELSE CellSelector(c)

\* the cells a row element has: selector -> text content
HasCell(row, selector) ==
    selector \in {StatusSelector, CellSelector(S_name)}

CellText(row, selector) ==
    IF selector = StatusSelector THEN row.status ELSE row.name

ColumnValue(row, column) ==
    LET sel == ColumnSelector(column) IN
    IF ~tableVisible THEN [exc |-> Timeout, val |-> <<>>]
    ELSE IF ~HasCell(row, sel) THEN [exc |-> NoSuchElement, val |-> <<>>]
    ELSE IF sel = StatusSelector
    THEN [exc |-> NoExc, val |-> Strip(CellText(row, sel))]
    ELSE [exc |-> NoExc, val |-> GetElementText(CellText(row, sel))]

(***************************************************************************)
(* The Locator registry: a mapping from a name to the pair <<by, selector>> *)
(* a component looks its elements up with.                                 *)
(***************************************************************************)
None == "None"

\* no container object is under test
NoContainer ==
    [kind |-> "none", is_multi_input |-> FALSE, is_single_input |-> FALSE]

\* By.CSS_SELECTOR
ByCss == "css selector"

IndexError == "IndexError"

\* the comprehension of __init__ and update_locaters: a None strategy
\* becomes By.CSS_SELECTOR, the selector is kept
WithStrategy(new_locators) ==
    [key \in DOMAIN new_locators |->
        <<IF new_locators[key][1] = None THEN ByCss ELSE new_locators[key][1],
          new_locators[key][2]>>]

\* Locator(existing_locators)
LocatorInit(existing_locators) == WithStrategy(existing_locators)

\* update_locaters keeping the pairs already registered (dict.setdefault)
UpdateLocaters_KeepFirst(locs, new_locators) ==
    LET updated_locators == WithStrategy(new_locators) IN
    [key \in DOMAIN locs \cup DOMAIN new_locators |->
        IF key \in DOMAIN locs THEN locs[key] ELSE updated_locators[key]]

\* update_locaters: self.locators.update(updated_locators)
UpdateLocaters(locs, new_locators) ==
    LET updated_locators == WithStrategy(new_locators) IN
    [key \in DOMAIN locs \cup DOMAIN new_locators |->
        IF key \in DOMAIN new_locators THEN updated_locators[key]
        ELSE locs[key]]

\* get_locator: self.locators.get(name, []), then the log line indexes
\* locator[0] and locator[1] before the pair is returned
GetLocator(locs, name) ==
    LET locator == IF name \in DOMAIN locs THEN locs[name] ELSE <<>> IN
    IF Len(locator) < 2 THEN [exc |-> IndexError, ret |-> <<>>]
    ELSE [exc |-> NoExc, ret |-> locator]

\* the container dict an AlertTable is built on
TableContainer == "table" :> <<None, <<"div.table">>>>

\* the registry of a constructed AlertTable: the container, the entries of
\* AlertBaseComponent and AlertTable's new_locator
TableLocators ==
    UpdateLocaters(
      UpdateLocaters(
        LocatorInit(TableContainer),
        ("label_component" :> <<None, <<".control-label">>>>)
          @@ ("help" :> <<None, <<".help-block">>>>)),
      ("input_number" :> <<None, <<".shared-collectioncount">>>>)
        @@ ("status_column" :> <<None, StatusSelector>>)
        @@ ("clear_filter" :> <<None, <<"[data-test=clear]">>>>)
        @@ ("search_box" :> <<None, <<"input.search-query">>>>)
        @@ ("loader" :> <<None, <<"[data-test=wait-spinner]">>>>)
        @@ ("popup" :> <<None, <<"div.deletePrompt">>>>)
        @@ ("clone_btn" :> <<None, <<"a.clone">>>>)
        @@ ("edit_btn" :> <<None, <<".edit-alert">>>>)
        @@ ("delete_btn" :> <<None, <<"a.delete">>>>)
        @@ ("status_button" :> <<None, <<"[data-test=button][role=switch]">>>>)
        @@ ("switch_to_page" :> <<None, <<".pull-right li a">>>>)
        @@ ("main_table" :> <<None, <<"table[data-test=main-table]">>>>)
        @@ ("table_head" :> <<None, <<"[data-test=head]">>>>)
        @@ ("table_headers" :> <<None, <<"th">>>>)
        @@ ("table_container" :> <<None, <<"[data-test=table]">>>>)
        @@ ("expand" :> <<None, <<"[data-test=expand]">>>>)
        @@ ("rows" :> <<None, <<"tr.list-item.savedsearches-gridrow">>>>))

\* _column_value registering "temp_col" for a column other than status
RegisterTempCol(locs, column) ==
    LET c == NormalizeColumn(column) IN
    IF c = S_status THEN locs
    ELSE UpdateLocaters(locs, "temp_col" :> <<None, CellSelector(c)>>)

(***************************************************************************)
(* Row traversal: get_list_of_rows, get_total_rows_elements, get_row.      *)
(* Each operator walks the table from the page p the browser shows and     *)
(* reports what was returned (out), the exception raised (exc), the number *)
(* of clicks on "next" (clicks), the pages whose rows were read           *)
(* (pagesRead) and the page the browser is left on (endPage).             *)
(***************************************************************************)
Walk(exc, out, clicks, pagesRead, endPage) ==
    [exc |-> exc, out |-> out, clicks |-> clicks, pagesRead |-> pagesRead,
     endPage |-> endPage]

\* get_list_of_rows keeping the current page's rows in place of extending
RECURSIVE GetListOfRowsFrom_NoExtend(_, _)
GetListOfRowsFrom_NoExtend(p, acc) ==
    LET current_rows == Handles(PageRows(p))
        np == NextPage(p)
    IN  IF np.exc # NoExc THEN Walk(np.exc, <<>>, 0, <<p>>, p)
        ELSE IF np.ret = "True"
        THEN LET rest == GetListOfRowsFrom_NoExtend(np.page, current_rows) IN
             Walk(rest.exc, rest.out, rest.clicks + 1,
                  <<p>> \o rest.pagesRead, rest.endPage)
        ELSE Walk(NoExc, current_rows, 0, <<p>>, p)

RECURSIVE GetListOfRowsFrom(_, _)
GetListOfRowsFrom(p, acc) ==
    IF ~tableVisible THEN Walk(Timeout, <<>>, 0, <<>>, p)
    ELSE
    LET current_rows == Handles(PageRows(p))
        extended == acc \o current_rows
        np == NextPage(p)
    IN  IF np.exc # NoExc THEN Walk(np.exc, <<>>, 0, <<p>>, p)
        ELSE IF np.ret = "True"
        THEN LET rest == GetListOfRowsFrom(np.page, extended) IN
             Walk(rest.exc, rest.out, rest.clicks + 1,
                  <<p>> \o rest.pagesRead, rest.endPage)
        ELSE Walk(NoExc, extended, 0, <<p>>, p)

\* the generator ending after its first turn of the page
GetTotalRowsElementsFrom_NoRecurse(p) ==
    IF ~tableVisible THEN Walk(Timeout, <<>>, 0, <<>>, p)
    ELSE
    LET elements == Handles(PageRows(p))
        np == NextPage(p)
    IN  IF np.exc # NoExc THEN Walk(np.exc, elements, 0, <<p>>, p)
        ELSE IF np.ret = "True"
        THEN Walk(NoExc, elements, 1, <<p>>, np.page)
        ELSE Walk(NoExc, elements, 0, <<p>>, p)

\* the generator, consumed to its end
RECURSIVE GetTotalRowsElementsFrom(_)
GetTotalRowsElementsFrom(p) ==
    IF ~tableVisible THEN Walk(Timeout, <<>>, 0, <<>>, p)
    ELSE
    LET elements == Handles(PageRows(p))
        np == NextPage(p)
    IN  IF np.exc # NoExc THEN Walk(np.exc, elements, 0, <<p>>, p)
        ELSE IF np.ret = "True"
        THEN LET rest == GetTotalRowsElementsFrom(np.page) IN
             Walk(rest.exc, elements \o rest.out, rest.clicks + 1,
                  <<p>> \o rest.pagesRead, rest.endPage)
        ELSE Walk(NoExc, elements, 0, <<p>>, p)

\* get_row testing containment whatever is_search says
Matches_Substring(text, value, is_search) == IsSubstring(value, text)

\* get_row's test of one row's column text
Matches(text, value, is_search) ==
    IF is_search THEN IsSubstring(value, text) ELSE text = value

\* the scan of one page's rows: the index of the first match, 0 for none
RECURSIVE ScanRows(_, _, _, _, _)
ScanRows(rs, i, value, column, is_search) ==
    IF i > Len(rs) THEN [exc |-> NoExc, idx |-> 0]
    ELSE LET cv == ColumnValue(rs[i], column) IN
         IF cv.exc # NoExc THEN [exc |-> cv.exc, idx |-> 0]
         ELSE IF Matches(cv.val, value, is_search) THEN [exc |-> NoExc, idx |-> i]
         ELSE ScanRows(rs, i + 1, value, column, is_search)

\* get_row scanning a list built from the whole generator first
GetRowFrom_Eager(p, value, column, is_search) ==
    LET w == GetTotalRowsElementsFrom(p)
        rs == [k \in 1..Len(w.out) |->
                  CHOOSE r \in {rows[i] : i \in DOMAIN rows} : r.id = w.out[k]]
        scan == ScanRows(rs, 1, value, column, is_search)
    IN  IF w.exc # NoExc THEN Walk(w.exc, <<>>, w.clicks, w.pagesRead, w.endPage)
        ELSE IF scan.exc # NoExc
        THEN Walk(scan.exc, <<>>, w.clicks, w.pagesRead, w.endPage)
        ELSE IF scan.idx # 0
        THEN Walk(NoExc, <<rs[scan.idx].id>>, w.clicks, w.pagesRead, w.endPage)
        ELSE Walk(RowNotFound, <<>>, w.clicks, w.pagesRead, w.endPage)

\* get_row drawing rows from the generator, which turns the page only when
\* get_row asks for a row after the last one of the page
RECURSIVE GetRowFrom(_, _, _, _)
GetRowFrom(p, value, column, is_search) ==
    IF ~tableVisible THEN Walk(Timeout, <<>>, 0, <<>>, p)
    ELSE
    LET rs == PageRows(p)
        scan == ScanRows(rs, 1, value, column, is_search)
    IN  IF scan.exc # NoExc THEN Walk(scan.exc, <<>>, 0, <<p>>, p)
        ELSE IF scan.idx # 0 THEN Walk(NoExc, <<rs[scan.idx].id>>, 0, <<p>>, p)
        ELSE LET np == NextPage(p) IN
             IF np.exc # NoExc THEN Walk(np.exc, <<>>, 0, <<p>>, p)
             ELSE IF np.ret = "True"
             THEN LET rest == GetRowFrom(np.page, value, column, is_search) IN
                  Walk(rest.exc, rest.out, rest.clicks + 1,
                       <<p>> \o rest.pagesRead, rest.endPage)
             ELSE Walk(RowNotFound, <<>>, 0, <<p>>, p)

(***************************************************************************)
(* Calls on the AlertTable.  Each action is one whole call: it records     *)
(* what the call returned or raised and leaves the browser on the page     *)
(* the call's last click led to.                                           *)
(***************************************************************************)
Call(op, value, column, is_search, order, ret, w, start) ==
    [op |-> op, value |-> value, column |-> column, isSearch |-> is_search,
     order |-> order, before |-> IF op = "sort_table" THEN headers ELSE <<>>,
     ret |-> ret, exc |-> w.exc, out |-> w.out,
     clicks |-> w.clicks, pagesRead |-> w.pagesRead, startPage |-> start,
     endPage |-> w.endPage]

NoCall ==
    Call("none", <<>>, <<>>, FALSE, "", "None", Walk(NoExc, <<>>, 0, <<>>, 1), 1)

NoColumnCall ==
    [op |-> "none", row |-> 0, column |-> <<>>, selector |-> <<>>,
     exc |-> NoExc, text |-> <<>>]

Returned(w, kind) == IF w.exc = NoExc THEN kind ELSE "raised"

GetRowColumns == {S_name}

\* whether the walk handed at least one row to _column_value
AnyRowRead(w) ==
    \E k \in DOMAIN w.pagesRead : PageRows(w.pagesRead[k]) # <<>>

get_list_of_rows ==
    LET w == GetListOfRowsFrom(curPage, <<>>) IN
    /\ lastOp' = Call("get_list_of_rows", <<>>, <<>>, FALSE, "",
                      Returned(w, "list"), w, curPage)
    /\ curPage' = w.endPage
    /\ UNCHANGED <<hostVars, tableVars, headers, colOp, locators,
                 popup, modal, container>>

get_total_rows_elements ==
    LET w == GetTotalRowsElementsFrom(curPage) IN
    /\ lastOp' = Call("get_total_rows_elements", <<>>, <<>>, FALSE, "",
                      Returned(w, "exhausted"), w, curPage)
    /\ curPage' = w.endPage
    /\ UNCHANGED <<hostVars, tableVars, headers, colOp, locators,
                 popup, modal, container>>

get_row(value, column, is_search) ==
    LET w == GetRowFrom(curPage, value, column, is_search) IN
    /\ lastOp' = Call("get_row", value, column, is_search, "",
                      Returned(w, "row"), w, curPage)
    /\ curPage' = w.endPage
    /\ locators' = IF AnyRowRead(w) THEN RegisterTempCol(locators, column)
                   ELSE locators
    /\ UNCHANGED <<hostVars, tableVars, headers, colOp, popup, modal, container>>

TurnCall(op, t) ==
    /\ lastOp' = Call(op, <<>>, <<>>, FALSE, "", t.ret,
                      Walk(t.exc, <<>>, IF t.clicked THEN 1 ELSE 0, <<>>, t.page),
                      curPage)
    /\ curPage' = t.page
    /\ UNCHANGED <<hostVars, tableVars, headers, colOp, locators,
                 popup, modal, container>>

next_page == TurnCall("next_page", NextPage(curPage))

prev_page == TurnCall("prev_page", PrevPage(curPage))

(***************************************************************************)
(* The table under a test: any table of at most MaxRows rows, shown        *)
(* MaxPageSize or fewer rows to a page, freshly loaded on page 1.          *)
(***************************************************************************)
NameLists == UNION {[1..n -> Texts] : n \in 0..MaxRows}

FixedHeaders == <<[text |-> S_Name, dir |-> "none"]>>

Init ==
    /\ HostInit
    /\ rows \in {MkRows(names) : names \in NameLists}
    /\ pageSize \in 1..MaxPageSize
    /\ lastMode \in Modes
    /\ tableVisible = TRUE
    /\ curPage = 1
    /\ headers = FixedHeaders
    /\ colOp = NoColumnCall
    /\ lastOp = NoCall
    /\ locators = TableLocators
    /\ popup = FALSE
    /\ modal = FALSE
    /\ container = NoContainer

Next ==
    \/ get_list_of_rows
    \/ get_total_rows_elements
    \/ \E value \in Values, column \in GetRowColumns, is_search \in BOOLEAN :
           get_row(value, column, is_search)
    \/ next_page
    \/ prev_page

Spec == Init /\ [][Next]_vars

(***************************************************************************)
(* What the claims speak of.                                               *)
(***************************************************************************)
Traversals == {"get_list_of_rows", "get_total_rows_elements", "get_row"}

RowById(id) == CHOOSE r \in {rows[i] : i \in DOMAIN rows} : r.id = id

\* the page a row of the table is shown on
PageOf(i) == ((i - 1) \div pageSize) + 1

\* the rows of pages p..NumPages, page after page, each page in on-screen order
RECURSIVE PagesConcat(_)
PagesConcat(p) ==
    IF p > NumPages THEN <<>> ELSE Handles(PageRows(p)) \o PagesConcat(p + 1)

\* r_p + ... + r_N
RECURSIVE RowCountFrom(_)
RowCountFrom(p) ==
    IF p > NumPages THEN 0 ELSE Len(PageRows(p)) + RowCountFrom(p + 1)

\* no control labelled "next" that is displayed and enabled, on page p
NoClickableNext(p) ==
    ~ \E i \in DOMAIN PagerControls(p) :
        /\ Lower(GetElementText(PagerControls(p)[i].innerText)) = S_next
        /\ PagerControls(p)[i].displayed
        /\ PagerControls(p)[i].enabled

\* page controls are shown on page p, none of them labelled "next"
ControlsWithoutNext(p) ==
    /\ PagerControls(p) # <<>>
    /\ \A i \in DOMAIN PagerControls(p) :
           Lower(GetElementText(PagerControls(p)[i].innerText)) # S_next

\* the text get_row compares: the column's text as _column_value returns it
ColumnText(i, column) == ColumnValue(rows[i], column).val

\* the rows of the table, from page p on, that meet get_row's test
MatchingFrom(p, value, column, is_search) ==
    {i \in DOMAIN rows :
        /\ PageOf(i) >= p
        /\ IF is_search THEN IsSubstring(value, ColumnText(i, column))
                        ELSE ColumnText(i, column) = value}

C2_NextPageNeverRaises ==
    (lastOp.op = "next_page" /\ NoClickableNext(lastOp.startPage))
    => /\ lastOp.ret = "False"
       /\ lastOp.exc = NoExc
       /\ lastOp.clicks = 0

(***************************************************************************)
(* C2 amended: with no clickable "next" control, next_page never clicks    *)
(* and leaves the page as it is; it returns False when no page controls    *)
(* are shown or the "next" control is hidden or disabled, and raises       *)
(* ValueError when page controls are shown but none is labelled "next".    *)
(***************************************************************************)
C2_NextPageFalseOrValueError ==
    (lastOp.op = "next_page" /\ NoClickableNext(lastOp.startPage))
    => /\ lastOp.clicks = 0
       /\ lastOp.endPage = lastOp.startPage
       /\ curPage = lastOp.startPage
       /\ IF ControlsWithoutNext(lastOp.startPage)
          THEN lastOp.ret = "raised" /\ lastOp.exc = PageNotFound
          ELSE lastOp.ret = "False" /\ lastOp.exc = NoExc

C2_Witness ==
    /\ lastOp.op = "next_page"
    /\ NumPages = 3
    /\ lastOp.startPage = 3
    /\ lastMode = "hidden"
    /\ lastOp.ret = "False"

(***************************************************************************)
(* C3 as stated: on a multi-page table, get_list_of_rows() followed by     *)
(* get_total_rows_elements() consumed to its end yields as many rows as    *)
(* the get_list_of_rows() call returned.                                   *)
(***************************************************************************)
C3_ListThenStreamSameCount ==
    [][(/\ lastOp.op = "get_list_of_rows"
        /\ lastOp.exc = NoExc
        /\ lastOp.startPage = 1
        /\ NumPages >= 2
        /\ lastOp'.op = "get_total_rows_elements")
       => /\ lastOp'.exc = NoExc
          /\ Len(lastOp'.out) = Len(lastOp.out)]_vars

(***************************************************************************)
(* C4 as stated: every get_list_of_rows, get_total_rows_elements and       *)
(* get_row call begins its walk at page 1, whatever page the table was     *)
(* showing when the call was made.                                         *)
(***************************************************************************)
C4_WalkBeginsAtPageOne ==
    (lastOp.op \in Traversals /\ lastOp.pagesRead # <<>>)
    => Head(lastOp.pagesRead) = 1

(***************************************************************************)
(* C5: the row get_row returns meets the test on its column text (value    *)
(* is a case-sensitive substring of it when is_search, equal to it         *)
(* otherwise) and no row get_row passed over meets it; a row whose text    *)
(* is "FooBar" is returned for "Foo" in search mode and never otherwise.   *)
(***************************************************************************)
C5_GetRowTest ==
    (lastOp.op = "get_row" /\ lastOp.ret = "row")
    => LET i == CHOOSE j \in DOMAIN rows : rows[j].id = lastOp.out[1]
           t == ColumnText(i, lastOp.column)
       IN  /\ lastOp.isSearch => IsSubstring(lastOp.value, t)
           /\ ~lastOp.isSearch => t = lastOp.value
           /\ \A j \in MatchingFrom(lastOp.startPage, lastOp.value,
                                    lastOp.column, lastOp.isSearch) : i <= j
           /\ (lastOp.value = S_Foo /\ t = S_FooBar) => lastOp.isSearch
           /\ (/\ lastOp.value = S_Foo
               /\ lastOp.isSearch
               /\ rows[(lastOp.startPage - 1) * pageSize + 1].name = S_FooBar)
              => t = S_FooBar

C5_Witness ==
    /\ lastOp.op = "get_row"
    /\ lastOp.ret = "row"
    /\ lastOp.isSearch
    /\ lastOp.value = S_Foo
    /\ RowById(lastOp.out[1]).name = S_FooBar

(***************************************************************************)
(* C6 as stated: get_row raises ValueError exactly when no row on any page *)
(* of the table matches, and only after every page has been visited; what  *)
(* it returns otherwise is a row of the table, never None.                 *)
(***************************************************************************)
C6_RaisesExactlyWhenNoRowMatches ==
    lastOp.op = "get_row"
    => /\ lastOp.ret \in {"row", "raised"}
       /\ lastOp.ret = "row" =>
              /\ Len(lastOp.out) = 1
              /\ \E i \in DOMAIN rows : rows[i].id = lastOp.out[1]
       /\ lastOp.ret = "raised" => IsValueError(lastOp.exc)
       /\ IsValueError(lastOp.exc)
              <=> MatchingFrom(1, lastOp.value, lastOp.column,
                               lastOp.isSearch) = {}
       /\ IsValueError(lastOp.exc)
              => lastOp.pagesRead = [k \in 1..NumPages |-> k]

(***************************************************************************)
(* C7: called on a table showing page 1 that has a matching row, get_row   *)
(* returns the first matching row in page order then on-screen order; with *)
(* that row on page k it clicks "next" k-1 times, reads pages 1..k and     *)
(* leaves the browser on page k: no click follows the match.               *)
(***************************************************************************)
C7_FirstMatchLazily ==
    LET M == MatchingFrom(1, lastOp.value, lastOp.column, lastOp.isSearch) IN
    (lastOp.op = "get_row" /\ lastOp.startPage = 1 /\ M # {})
    => LET k == PageOf(Min(M)) IN
       /\ lastOp.ret = "row"
       /\ lastOp.out = <<rows[Min(M)].id>>
       /\ lastOp.clicks = k - 1
       /\ lastOp.pagesRead = [j \in 1..k |-> j]
       /\ lastOp.endPage = k
       /\ curPage = k

C7_Witness ==
    /\ lastOp.op = "get_row"
    /\ lastOp.startPage = 1
    /\ lastOp.ret = "row"
    /\ NumPages = 3
    /\ PageOf(lastOp.out[1]) = 2
    /\ lastOp.clicks = 1
    /\ curPage = 2

(***************************************************************************)
(* _column_value called on its own: any row of a fixed table, and column   *)
(* names that spell "status" and "name" with any two or fewer letters in   *)
(* upper case and a space before any letter but the first.                 *)
(***************************************************************************)
Variant(base, ups, sp) ==
    LET cased == [i \in 1..Len(base) |->
                     IF i \in ups THEN UpperChar(base[i]) ELSE base[i]]
    IN  IF sp = 0 THEN cased
        ELSE SubSeq(cased, 1, sp) \o <<" ">> \o SubSeq(cased, sp + 1, Len(base))

Variants(base) ==
    {Variant(base, ups, sp) :
        ups \in {u \in SUBSET (1..Len(base)) : Cardinality(u) <= 2},
        sp \in 0..(Len(base) - 1)}

ColumnNames == Variants(S_status) \cup Variants(S_name)

column_value(i, column) ==
    LET cv == ColumnValue(rows[i], column) IN
    /\ colOp' = [op |-> "_column_value", row |-> rows[i].id, column |-> column,
                 selector |-> ColumnSelector(column), exc |-> cv.exc,
                 text |-> cv.val]
    /\ locators' = RegisterTempCol(locators, column)
    /\ UNCHANGED <<hostVars, tableVars, curPage, headers, lastOp,
                 popup, modal, container>>

InitColumn ==
    /\ HostInit
    /\ rows = MkRows(<<S_FooWs, S_FooBar>>)
    /\ pageSize = 2
    /\ lastMode = "disabled"
    /\ tableVisible = TRUE
    /\ curPage = 1
    /\ headers = FixedHeaders
    /\ colOp = NoColumnCall
    /\ lastOp = NoCall
    /\ locators = TableLocators
    /\ popup = FALSE
    /\ modal = FALSE
    /\ container = NoContainer

NextColumn ==
    \E i \in DOMAIN rows, column \in ColumnNames : column_value(i, column)

SpecColumn == InitColumn /\ [][NextColumn]_vars

(***************************************************************************)
(* C8 as stated: "Status", "status" and "sta tus" all lead _column_value   *)
(* to the dedicated status selector.                                       *)
(***************************************************************************)
C8_StatusNamesOneSelector ==
    (colOp.op = "_column_value"
        /\ colOp.column \in {S_Status, S_status, S_sta_tus})
    => colOp.selector = StatusSelector

(***************************************************************************)
(* C8 amended: _column_value uses the dedicated status selector exactly    *)
(* for the names that are "status" once lower-cased, "Status" and "status" *)
(* among them; a space in the name becomes an underscore, so "sta tus"     *)
(* leads to the generic cell selector td.cell-sta_tus.                     *)
(***************************************************************************)
C8_StatusSelectorIffLowerIsStatus ==
    colOp.op = "_column_value"
    => /\ colOp.column \in {S_Status, S_status}
              => colOp.selector = StatusSelector
       /\ colOp.column = S_sta_tus
              => colOp.selector
                     = <<"td.cell-">> \o <<"s","t","a","_","t","u","s">>
       /\ colOp.selector = StatusSelector <=> Lower(colOp.column) = S_status

C8_Witness ==
    /\ colOp.op = "_column_value"
    /\ colOp.column = S_sta_tus
    /\ colOp.selector # StatusSelector
    /\ colOp.exc = NoSuchElement

(***************************************************************************)
(* Sorting: sort_table.  A click on a header moves its direction along     *)
(* none -> asc -> desc -> asc -> ...                                       *)
(***************************************************************************)
Directions == {"none", "asc", "desc"}
Orders == {"asc", "desc"}

ClickedDir(dir) == IF dir = "asc" THEN "desc" ELSE "asc"

ClickHeader(hs, i) == [hs EXCEPT ![i].dir = ClickedDir(hs[i].dir)]

SortResult(ret, exc, hs, clicked) ==
    [ret |-> ret, exc |-> exc, headers |-> hs, clicked |-> clicked]

\* sort_table with the "Already sorted." branch left out
RECURSIVE SortTableFrom_NoAlreadySorted(_, _, _, _, _)
SortTableFrom_NoAlreadySorted(hs, i, column, order, clicked) ==
    IF i > Len(hs) THEN SortResult("raised", SortFailed, hs, clicked)
    ELSE
    LET th == hs[i] IN
    IF th.text # <<>> /\ Lower(th.text) = Lower(column)
    THEN LET current_sort_order == th.dir IN
         IF \/ (order = "asc" /\ current_sort_order = "desc")
            \/ (order = "desc" /\ current_sort_order = "asc")
         THEN SortResult("True", NoExc, ClickHeader(hs, i), Append(clicked, i))
         ELSE LET once == ClickHeader(hs, i) IN
              IF order = "desc"
              THEN SortResult("True", NoExc, ClickHeader(once, i),
                              clicked \o <<i, i>>)
              ELSE SortTableFrom_NoAlreadySorted(once, i + 1, column, order,
                                                 Append(clicked, i))
    ELSE SortTableFrom_NoAlreadySorted(hs, i + 1, column, order, clicked)

\* sort_table matching a header on its text alone, the empty text included
RECURSIVE SortTableFrom_NoTextGuard(_, _, _, _, _)
SortTableFrom_NoTextGuard(hs, i, column, order, clicked) ==
    IF i > Len(hs) THEN SortResult("raised", SortFailed, hs, clicked)
    ELSE
    LET th == hs[i] IN
    IF Lower(th.text) = Lower(column)
    THEN LET current_sort_order == th.dir IN
         IF \/ (order = "asc" /\ current_sort_order = "asc")
            \/ (order = "desc" /\ current_sort_order = "desc")
         THEN SortResult("True", NoExc, hs, clicked)
         ELSE IF \/ (order = "asc" /\ current_sort_order = "desc")
                 \/ (order = "desc" /\ current_sort_order = "asc")
         THEN SortResult("True", NoExc, ClickHeader(hs, i), Append(clicked, i))
         ELSE LET once == ClickHeader(hs, i) IN
              IF order = "desc"
              THEN SortResult("True", NoExc, ClickHeader(once, i),
                              clicked \o <<i, i>>)
              ELSE SortTableFrom_NoTextGuard(once, i + 1, column, order,
                                             Append(clicked, i))
    ELSE SortTableFrom_NoTextGuard(hs, i + 1, column, order, clicked)

\* sort_table clicking an unsorted header once whatever the order
RECURSIVE SortTableFrom_OneClickUnsorted(_, _, _, _, _)
SortTableFrom_OneClickUnsorted(hs, i, column, order, clicked) ==
    IF i > Len(hs) THEN SortResult("raised", SortFailed, hs, clicked)
    ELSE
    LET th == hs[i] IN
    IF th.text # <<>> /\ Lower(th.text) = Lower(column)
    THEN LET current_sort_order == th.dir IN
         IF \/ (order = "asc" /\ current_sort_order = "asc")
            \/ (order = "desc" /\ current_sort_order = "desc")
         THEN SortResult("True", NoExc, hs, clicked)
         ELSE SortResult("True", NoExc, ClickHeader(hs, i), Append(clicked, i))
    ELSE SortTableFrom_OneClickUnsorted(hs, i + 1, column, order, clicked)

\* the loop of sort_table over the <th> elements, from the i-th on
RECURSIVE SortTableFrom(_, _, _, _, _)
SortTableFrom(hs, i, column, order, clicked) ==
    IF i > Len(hs) THEN SortResult("raised", SortFailed, hs, clicked)
    ELSE
    LET th == hs[i] IN
    IF th.text # <<>> /\ Lower(th.text) = Lower(column)
    THEN LET current_sort_order == th.dir IN
         IF \/ (order = "asc" /\ current_sort_order = "asc")
            \/ (order = "desc" /\ current_sort_order = "desc")
         THEN SortResult("True", NoExc, hs, clicked)
         ELSE IF \/ (order = "asc" /\ current_sort_order = "desc")
                 \/ (order = "desc" /\ current_sort_order = "asc")
         THEN SortResult("True", NoExc, ClickHeader(hs, i), Append(clicked, i))
         ELSE LET once == ClickHeader(hs, i) IN
              IF order = "desc"
              THEN SortResult("True", NoExc, ClickHeader(once, i),
                              clicked \o <<i, i>>)
              ELSE SortTableFrom(once, i + 1, column, order, Append(clicked, i))
    ELSE SortTableFrom(hs, i + 1, column, order, clicked)

SortColumns == {S_name, S_Name, S_status, S_bogus, <<>>}

sort_table(column, order) ==
    LET r == SortTableFrom(headers, 1, column, order, <<>>) IN
    /\ lastOp' = Call("sort_table", <<>>, column, FALSE, order, r.ret,
                      Walk(r.exc, r.clicked, Len(r.clicked), <<>>, curPage),
                      curPage)
    /\ headers' = r.headers
    /\ UNCHANGED <<hostVars, tableVars, curPage, colOp, locators,
                 popup, modal, container>>

(***************************************************************************)
(* The header row under a test: at most MaxHeaders cells; a cell's text is *)
(* empty (a column of controls) or a column title, and no two cells carry  *)
(* the same title.                                                         *)
(***************************************************************************)
HeaderTexts == {<<>>, S_Name, S_Status}

HeaderRows ==
    {hs \in UNION {[1..n -> [text : HeaderTexts, dir : Directions]] :
                      n \in 0..MaxHeaders} :
        \A i, j \in DOMAIN hs :
            (i # j /\ hs[i].text # <<>>) => hs[i].text # hs[j].text}

InitSort ==
    /\ HostInit
    /\ rows = MkRows(<<S_FooWs, S_FooBar>>)
    /\ pageSize = 2
    /\ lastMode = "disabled"
    /\ tableVisible = TRUE
    /\ curPage = 1
    /\ headers \in HeaderRows
    /\ colOp = NoColumnCall
    /\ lastOp = NoCall
    /\ locators = TableLocators
    /\ popup = FALSE
    /\ modal = FALSE
    /\ container = NoContainer

NextSort ==
    \E column \in SortColumns, order \in Orders : sort_table(column, order)

SpecSort == InitSort /\ [][NextSort]_vars

\* the header cells whose text is the column's, case-insensitively
MatchingHeaders(hs, column) ==
    {i \in DOMAIN hs : hs[i].text # <<>> /\ Lower(hs[i].text) = Lower(column)}

Opposite(order) == IF order = "asc" THEN "desc" ELSE "asc"

(***************************************************************************)
(* C9: sort_table on a matching header whose direction already is the      *)
(* requested order clicks nothing, leaves the headers as they are and      *)
(* returns True; on one whose direction is the opposite order it clicks    *)
(* that header once, and nothing else, and returns True.                   *)
(***************************************************************************)
C9_SortedOrOpposite ==
    lastOp.op = "sort_table"
    => \A m \in MatchingHeaders(lastOp.before, lastOp.column) :
           /\ lastOp.before[m].dir = lastOp.order
                  => /\ lastOp.clicks = 0
                     /\ lastOp.out = <<>>
                     /\ lastOp.ret = "True"
                     /\ headers = lastOp.before
           /\ lastOp.before[m].dir = Opposite(lastOp.order)
                  => /\ lastOp.clicks = 1
                     /\ lastOp.out = <<m>>
                     /\ lastOp.ret = "True"

C9_Witness ==
    /\ lastOp.op = "sort_table"
    /\ lastOp.order = "desc"
    /\ \E m \in MatchingHeaders(lastOp.before, lastOp.column) :
           lastOp.before[m].dir = "asc" /\ lastOp.out = <<m>>
    /\ lastOp.ret = "True"

(***************************************************************************)
(* C10 as stated: sort_table on a matching header whose direction is       *)
(* neither asc nor desc clicks it once for order asc and twice for order   *)
(* desc and returns True either way; it raises only when no header         *)
(* matches.                                                                *)
(***************************************************************************)
C10_UnsortedHeader ==
    lastOp.op = "sort_table"
    => /\ \A m \in MatchingHeaders(lastOp.before, lastOp.column) :
              lastOp.before[m].dir = "none"
                  => /\ lastOp.ret = "True"
                     /\ lastOp.clicks = IF lastOp.order = "asc" THEN 1 ELSE 2
       /\ lastOp.exc # NoExc
              => MatchingHeaders(lastOp.before, lastOp.column) = {}

(***************************************************************************)
(* C11: sort_table with a column name that equals, case-insensitively, no  *)
(* non-empty header text raises the ValueError "Failed to sort" and clicks *)
(* no header, so that every header keeps its direction.                    *)
(***************************************************************************)
C11_NoMatchRaisesWithoutClick ==
    (lastOp.op = "sort_table"
        /\ MatchingHeaders(lastOp.before, lastOp.column) = {})
    => /\ lastOp.exc = SortFailed
       /\ IsValueError(lastOp.exc)
       /\ lastOp.ret = "raised"
       /\ lastOp.clicks = 0
       /\ lastOp.out = <<>>
       /\ headers = lastOp.before

\* the empty column name against a header row that has a cell without text
C11_Witness ==
    /\ lastOp.op = "sort_table"
    /\ lastOp.column = <<>>
    /\ \E i \in DOMAIN lastOp.before : lastOp.before[i].text = <<>>
    /\ \E i \in DOMAIN lastOp.before : lastOp.before[i].text # <<>>
    /\ lastOp.exc = SortFailed
    /\ lastOp.clicks = 0

(***************************************************************************)
(* C12: with each click moving a header along none -> asc -> desc -> asc,  *)
(* the clicks sort_table(column, order) issues on a matching header leave  *)
(* that header's direction equal to the requested order, whichever of      *)
(* none, asc and desc it started from and for both orders.                 *)
(***************************************************************************)
C12_DirectionIsRequestedOrder ==
    lastOp.op = "sort_table"
    => \A m \in MatchingHeaders(lastOp.before, lastOp.column) :
           headers[m].dir = lastOp.order

\* an unsorted header asked to sort descending is clicked twice
C12_Witness ==
    /\ lastOp.op = "sort_table"
    /\ lastOp.order = "desc"
    /\ \E m \in MatchingHeaders(lastOp.before, lastOp.column) :
           /\ lastOp.before[m].dir = "none"
           /\ lastOp.out = <<m, m>>
           /\ headers[m].dir = "desc"

(***************************************************************************)
(* The Locator on its own: a registry built from any dict over two names,  *)
(* then any sequence of update_locaters and get_locator calls; get_locator *)
(* is also asked for a name no dict ever registers.                        *)
(***************************************************************************)
LocatorNames == {"rows", "temp_col"}

QueryNames == LocatorNames \cup {"missing"}

\* the [by, value] lists a caller may pass
RawPairs == {<<by, value>> : by \in {None, "id"},
                             value \in {<<"tr.list-item">>, <<"td.cell-name">>}}

LocatorDicts == UNION {[names -> RawPairs] : names \in SUBSET LocatorNames}

EmptyDict == [key \in {} |-> <<None, <<>>>>]

LocatorCall(op, name, new_locators, before, r) ==
    [op |-> op, name |-> name, new |-> new_locators, before |-> before,
     ret |-> r.ret, exc |-> r.exc]

update_locaters(new_locators) ==
    /\ locators' = UpdateLocaters(locators, new_locators)
    /\ lastOp' = LocatorCall("update_locaters", "", new_locators, locators,
                             [ret |-> <<>>, exc |-> NoExc])
    /\ UNCHANGED <<hostVars, tableVars, curPage, headers, colOp,
                 popup, modal, container>>

get_locator(name) ==
    /\ lastOp' = LocatorCall("get_locator", name, EmptyDict, locators,
                             GetLocator(locators, name))
    /\ UNCHANGED <<hostVars, tableVars, curPage, headers, colOp, locators,
                 popup, modal, container>>

InitLocator ==
    /\ HostInit
    /\ rows = <<>>
    /\ pageSize = 1
    /\ lastMode = "nocontrols"
    /\ tableVisible = TRUE
    /\ curPage = 1
    /\ headers = <<>>
    /\ colOp = NoColumnCall
    /\ \E existing_locators \in LocatorDicts :
           /\ locators = LocatorInit(existing_locators)
           /\ lastOp = LocatorCall("Locator", "", existing_locators, EmptyDict,
                                   [ret |-> <<>>, exc |-> NoExc])
    /\ popup = FALSE
    /\ modal = FALSE
    /\ container = NoContainer

NextLocator ==
    \/ \E new_locators \in LocatorDicts : update_locaters(new_locators)
    \/ \E name \in QueryNames : get_locator(name)

SpecLocator == InitLocator /\ [][NextLocator]_vars

(***************************************************************************)
(* C17 as stated: get_locator of a name that is not registered returns an  *)
(* empty pair and does not raise.                                          *)
(***************************************************************************)
C17_UnknownNameReturnsEmptyPair ==
    (lastOp.op = "get_locator" /\ lastOp.name \notin DOMAIN lastOp.before)
    => /\ lastOp.exc = NoExc
       /\ lastOp.ret = <<>>

(***************************************************************************)
(* C18: after the construction of a Locator and after each update_locaters *)
(* call, every name the call mentions resolves to the pair the call gave,  *)
(* with a None strategy replaced by the CSS-selector strategy (so the last *)
(* write wins), every other name keeps the pair it had, and no name is     *)
(* lost or invented; get_locator of a registered name returns the pair the *)
(* registry holds and leaves the registry as it is.                        *)
(***************************************************************************)
C18_LastWriteWins ==
    /\ lastOp.op \in {"Locator", "update_locaters"}
       => /\ DOMAIN locators = DOMAIN lastOp.before \cup DOMAIN lastOp.new
          /\ \A name \in DOMAIN lastOp.new :
                 /\ GetLocator(locators, name).exc = NoExc
                 /\ GetLocator(locators, name).ret
                        = <<IF lastOp.new[name][1] = None THEN ByCss
                            ELSE lastOp.new[name][1],
                            lastOp.new[name][2]>>
          /\ \A name \in DOMAIN lastOp.before \ DOMAIN lastOp.new :
                 locators[name] = lastOp.before[name]
    /\ (lastOp.op = "get_locator" /\ lastOp.name \in DOMAIN lastOp.before)
       => /\ lastOp.exc = NoExc
          /\ lastOp.ret = lastOp.before[lastOp.name]
          /\ locators = lastOp.before

\* an update overwrites one name with a None strategy and leaves another
C18_Witness ==
    /\ lastOp.op = "update_locaters"
    /\ DOMAIN lastOp.before = LocatorNames
    /\ DOMAIN lastOp.new = {"temp_col"}
    /\ lastOp.new["temp_col"][1] = None
    /\ lastOp.before["temp_col"] # locators["temp_col"]
    /\ locators["temp_col"][1] = ByCss
    /\ locators["rows"] = lastOp.before["rows"]

(***************************************************************************)
(* Element access: clicks and waits.  Each either returns or raises; what  *)
(* the browser shows decides which.                                        *)
(***************************************************************************)
AttributeError == "AttributeError"

\* AlertComponentAction.click_element: waits for the element to be
\* clickable, clicks it, and re-raises whatever went wrong
ClickElement(clickable) == IF clickable THEN NoExc ELSE Timeout

\* AlertComponentAction.wait_for_element: the locator, then wait.until
WaitForElement(locs, name, visible) ==
    LET l == GetLocator(locs, name) IN
    IF l.exc # NoExc THEN l.exc ELSE IF visible THEN NoExc ELSE Timeout

\* AlertComponentAction.wait_for_element_invisible
WaitForElementInvisible(locs, name, visible) ==
    LET l == GetLocator(locs, name) IN
    IF l.exc # NoExc THEN l.exc ELSE IF visible THEN Timeout ELSE NoExc

\* the same three methods of ComponentAction, which Button, DropDown,
\* Message and ContainerAction inherit
ComponentClickElement(clickable) == IF clickable THEN NoExc ELSE Timeout

ComponentWaitForElement(locs, name, visible) ==
    LET l == GetLocator(locs, name) IN
    IF l.exc # NoExc THEN l.exc ELSE IF visible THEN NoExc ELSE Timeout

ComponentWaitForElementInvisible(locs, name, visible) ==
    LET l == GetLocator(locs, name) IN
    IF l.exc # NoExc THEN l.exc ELSE IF visible THEN Timeout ELSE NoExc

\* Button.click and AlertButton.click
ButtonClick(clickable) == ComponentClickElement(clickable)

AlertButtonClick(clickable) == ClickElement(clickable)

\* DropDown.select: opens the dropdown and clicks the option, or raises
DropDownSelect(selectable) ==
    IF selectable THEN ComponentClickElement(TRUE) ELSE Timeout

(***************************************************************************)
(* Containers: ContainerAction (add, close, save, cancel) and              *)
(* AlertContainerAction (open, close, save, cancel).                       *)
(***************************************************************************)
S_Err == <<"E","r","r">>
S_ErrWs == <<" ","E","r","r","\n">>
S_Blank == <<" ">>

\* the error-message element is not in the page
NoElement == <<"no element">>

\* what the error-message element shows after a click on save
ErrorTexts == {<<>>, S_Blank, S_Err, S_ErrWs}

Containers ==
    {[kind |-> "ContainerAction", is_multi_input |-> m, is_single_input |-> s] :
        m \in BOOLEAN, s \in BOOLEAN}
    \cup {[kind |-> "AlertContainerAction", is_multi_input |-> FALSE,
           is_single_input |-> FALSE]}

\* the registry a container is constructed with
ContainerLocators(c) ==
    IF c.kind = "ContainerAction"
    THEN UpdateLocaters(
             LocatorInit("container" :> <<None, <<"div.container">>>>),
             ("wait-spinner" :> <<None, <<"[data-test=wait-spinner]">>>>)
               @@ ("open_modal" :> <<None, <<"[data-test=modal]">>>>))
    ELSE UpdateLocaters(
             LocatorInit("container" :> <<None, <<"div.container">>>>),
             "wait_btn" :> <<None, <<".alert-save-as .btn-save">>>>)

\* the attributes __init__ gives a ContainerAction
ContainerAttrs(c) ==
    {"save_btn", "edit_btn", "delete_btn", "close_btn", "add_btn",
     "cancel_btn", "config_save", "error_container"}
    \cup (IF c.is_multi_input THEN {"create_multi_input_btn"}
          ELSE IF c.is_single_input THEN {"create_input_btn"} ELSE {})

\* the locator whose invisibility close, save and cancel wait for
ClosedLocator(c) ==
    IF c.kind = "ContainerAction" THEN "open_modal" ELSE "wait_btn"

ClickOf(c, clickable) ==
    IF c.kind = "ContainerAction" THEN ButtonClick(clickable)
    ELSE AlertButtonClick(clickable)

WaitVisibleOf(c, locs, name, visible) ==
    IF c.kind = "ContainerAction"
    THEN ComponentWaitForElement(locs, name, visible)
    ELSE WaitForElement(locs, name, visible)

WaitInvisibleOf(c, locs, name, visible) ==
    IF c.kind = "ContainerAction"
    THEN ComponentWaitForElementInvisible(locs, name, visible)
    ELSE WaitForElementInvisible(locs, name, visible)

\* the outcome of a container method: what it returned (ret, with the text
\* in out when ret is "error_msg"), what it raised (exc), the exception it
\* logged, whether the primary click and the wait succeeded, and whether
\* the modal is displayed afterwards
ContainerResult(ret, exc, out, clicked, waited, m) ==
    [ret |-> ret, exc |-> exc, logged |-> NoExc, out |-> out,
     clicked |-> clicked, waited |-> waited, modal |-> m]

\* a container method without its try/except
CatchAll_Reraise(r) == r

\* try: ... except Exception: LOGGER.error(...); return False
CatchAll(r) ==
    IF r.exc = NoExc THEN r
    ELSE [r EXCEPT !.ret = "False", !.exc = NoExc, !.logged = r.exc]

\* the page after a click it may react to: a click that opens or closes
\* the modal leaves it displayed or not, no reaction leaves it as it was
AfterClick(m, click, reacts, target) ==
    IF click = NoExc /\ reacts THEN target ELSE m

AddFrom(c, locs, value, m, clickable, reacts) ==
    LET attr == IF c.is_multi_input /\ value # None
                THEN "create_multi_input_btn"
                ELSE IF c.is_single_input THEN "create_input_btn"
                ELSE "add_btn"
        click == IF attr \notin ContainerAttrs(c) THEN AttributeError
                 ELSE IF attr = "create_multi_input_btn"
                 THEN DropDownSelect(clickable)
                 ELSE ButtonClick(clickable)
        m1 == AfterClick(m, click, reacts, TRUE)
        wait == ComponentWaitForElement(locs, "open_modal", m1)
    IN  CatchAll(
          IF click # NoExc
          THEN ContainerResult("raised", click, <<>>, FALSE, FALSE, m)
          ELSE IF wait # NoExc
          THEN ContainerResult("raised", wait, <<>>, TRUE, FALSE, m1)
          ELSE ContainerResult("True", NoExc, <<>>, TRUE, TRUE, m1))

\* close_btn sits in the modal: it can be clicked only while the modal is
\* displayed
CloseFrom(c, locs, m, clickable, reacts) ==
    LET click == ClickOf(c, m /\ clickable)
        m1 == AfterClick(m, click, reacts, FALSE)
        wait == WaitInvisibleOf(c, locs, ClosedLocator(c), m1)
    IN  CatchAll(
          IF click # NoExc
          THEN ContainerResult("raised", click, <<>>, FALSE, FALSE, m)
          ELSE IF wait # NoExc
          THEN ContainerResult("raised", wait, <<>>, TRUE, FALSE, m1)
          ELSE ContainerResult("True", NoExc, <<>>, TRUE, TRUE, m1))

CancelFrom(c, locs, m, clickable, reacts) ==
    LET click == ClickOf(c, m /\ clickable)
        m1 == AfterClick(m, click, reacts, FALSE)
        wait == WaitInvisibleOf(c, locs, ClosedLocator(c), m1)
    IN  CatchAll(
          IF click # NoExc
          THEN ContainerResult("raised", click, <<>>, FALSE, FALSE, m)
          ELSE IF wait # NoExc
          THEN ContainerResult("raised", wait, <<>>, TRUE, FALSE, m1)
          ELSE ContainerResult("True", NoExc, <<>>, TRUE, TRUE, m1))

\* Message.get_message: the element's text, stripped; raises when the
\* element is not found
GetMessage(error) ==
    IF error = NoElement THEN [exc |-> NoSuchElement, text |-> <<>>]
    ELSE [exc |-> NoExc, text |-> Strip(error)]

\* the error probe of save with a failure of get_message let through
SaveProbe_Propagate(error) == GetMessage(error)

\* error_msg = ""; try: error_msg = get_message() except: pass
SaveProbe(error) ==
    LET message == GetMessage(error) IN
    IF message.exc # NoExc THEN [exc |-> NoExc, text |-> <<>>]
    ELSE message

SaveFrom(c, locs, m, clickable, reacts, error) ==
    LET click == ClickOf(c, m /\ clickable)
        m1 == AfterClick(m, click, reacts, FALSE)
        probe == SaveProbe(error)
        error_msg == probe.text
        wait == WaitInvisibleOf(c, locs, ClosedLocator(c), m1)
    IN  CatchAll(
          IF click # NoExc
          THEN ContainerResult("raised", click, <<>>, FALSE, FALSE, m)
          ELSE IF probe.exc # NoExc
          THEN ContainerResult("raised", probe.exc, <<>>, TRUE, FALSE, m1)
          ELSE IF error_msg # <<>>
          THEN ContainerResult("error_msg", NoExc, error_msg, TRUE, FALSE, m1)
          ELSE IF wait # NoExc
          THEN ContainerResult("raised", wait, <<>>, TRUE, FALSE, m1)
          ELSE ContainerResult("True", NoExc, <<>>, TRUE, TRUE, m1))

\* AlertContainerAction.open: the click alone, outside any try
OpenFrom(c, m, clickable, reacts) ==
    LET click == AlertButtonClick(clickable) IN
    IF click # NoExc
    THEN ContainerResult("raised", click, <<>>, FALSE, FALSE, m)
    ELSE ContainerResult("None", NoExc, <<>>, TRUE, FALSE,
                         AfterClick(m, click, reacts, TRUE))

ContainerCall(op, value, clickable, reacts, error, r) ==
    [op |-> op, value |-> value, clickable |-> clickable, reacts |-> reacts,
     error |-> error, before |-> modal, ret |-> r.ret, exc |-> r.exc,
     logged |-> r.logged, out |-> r.out, clicked |-> r.clicked,
     waited |-> r.waited]

ContainerStep(op, value, clickable, reacts, error, r) ==
    /\ lastOp' = ContainerCall(op, value, clickable, reacts, error, r)
    /\ modal' = r.modal
    /\ UNCHANGED <<hostVars, tableVars, curPage, headers, colOp, locators, popup,
                   container>>

add(value, clickable, reacts) ==
    /\ container.kind = "ContainerAction"
    /\ ContainerStep("add", value, clickable, reacts, <<>>,
                     AddFrom(container, locators, value, modal, clickable,
                             reacts))

open(clickable, reacts) ==
    /\ container.kind = "AlertContainerAction"
    /\ ContainerStep("open", None, clickable, reacts, <<>>,
                     OpenFrom(container, modal, clickable, reacts))

close(clickable, reacts) ==
    ContainerStep("close", None, clickable, reacts, <<>>,
                  CloseFrom(container, locators, modal, clickable, reacts))

cancel(clickable, reacts) ==
    ContainerStep("cancel", None, clickable, reacts, <<>>,
                  CancelFrom(container, locators, modal, clickable, reacts))

save(clickable, reacts, error) ==
    ContainerStep("save", None, clickable, reacts, error,
                  SaveFrom(container, locators, modal, clickable, reacts,
                           error))

AddValues == {None, "input"}

InitContainer ==
    /\ HostInit
    /\ rows = <<>>
    /\ pageSize = 1
    /\ lastMode = "nocontrols"
    /\ tableVisible = TRUE
    /\ curPage = 1
    /\ headers = <<>>
    /\ colOp = NoColumnCall
    /\ container \in Containers
    /\ locators = ContainerLocators(container)
    /\ popup = FALSE
    /\ modal = FALSE
    /\ lastOp = ContainerCall("none", None, FALSE, FALSE, <<>>,
                  ContainerResult("None", NoExc, <<>>, FALSE, FALSE, FALSE))

NextContainer ==
    \E clickable \in BOOLEAN, reacts \in BOOLEAN :
        \/ \E value \in AddValues : add(value, clickable, reacts)
        \/ open(clickable, reacts)
        \/ close(clickable, reacts)
        \/ cancel(clickable, reacts)
        \/ \E error \in ErrorTexts \cup {NoElement} :
               save(clickable, reacts, error)

SpecContainer == InitContainer /\ [][NextContainer]_vars

(***************************************************************************)
(* C19: add, close and cancel never raise; each returns True when its      *)
(* primary click and the wait after it both succeed, with the modal        *)
(* displayed after add and not displayed after close and cancel, and       *)
(* returns False, with the failure logged, when either fails.              *)
(***************************************************************************)
C19_AddCloseCancelNeverRaise ==
    lastOp.op \in {"add", "close", "cancel"}
    => /\ lastOp.exc = NoExc
       /\ lastOp.ret \in {"True", "False"}
       /\ lastOp.ret = "True" <=> (lastOp.clicked /\ lastOp.waited)
       /\ lastOp.ret = "True" => modal = (lastOp.op = "add")
       /\ lastOp.ret = "False" <=> lastOp.logged # NoExc
       /\ ~lastOp.clicked => modal = lastOp.before

\* close clicks its button and the modal stays: the wait times out
C19_Witness ==
    /\ lastOp.op = "close"
    /\ lastOp.clicked
    /\ ~lastOp.waited
    /\ lastOp.logged = Timeout
    /\ lastOp.ret = "False"
    /\ modal

(***************************************************************************)
(* C20: save never raises and has three outcomes.  After a successful      *)
(* click on save it returns the error text when the error-message element  *)
(* shows text (other than white space), and then does not wait for the     *)
(* modal to close; it returns True when there is no error text and the     *)
(* modal becomes invisible; it returns False when the click or the wait    *)
(* fails.  An error-message element that cannot be found counts as no      *)
(* error text.                                                             *)
(***************************************************************************)
C20_SaveThreeOutcomes ==
    lastOp.op = "save"
    => LET shown == IF lastOp.error = NoElement THEN <<>>
                    ELSE Strip(lastOp.error)
       IN  /\ lastOp.exc = NoExc
           /\ lastOp.ret \in {"True", "False", "error_msg"}
           /\ lastOp.ret = "error_msg" <=> (lastOp.clicked /\ shown # <<>>)
           /\ lastOp.ret = "error_msg"
                  => (lastOp.out = shown /\ ~lastOp.waited)
           /\ lastOp.ret = "True"
                  <=> (lastOp.clicked /\ shown = <<>> /\ ~modal)
           /\ lastOp.ret = "True" => lastOp.waited
           /\ lastOp.ret = "False"
                  <=> (~lastOp.clicked \/ (shown = <<>> /\ modal))

\* the error-message element is not found and the modal closes: True
C20_Witness ==
    /\ lastOp.op = "save"
    /\ lastOp.error = NoElement
    /\ lastOp.clicked
    /\ lastOp.ret = "True"
    /\ lastOp.before
    /\ ~modal

(***************************************************************************)
(* Row workflows: delete_row and update_status.                            *)
(***************************************************************************)
S_enabled == <<"e","n","a","b","l","e","d">>
S_Disabled == <<"D","i","s","a","b","l","e","d">>
S_ENABLED_Ws == <<" ","E","N","A","B","L","E","D">>

\* the texts a row's status label may show
StatusTexts == {S_Enabled, S_Disabled, S_ENABLED_Ws}

MkStatusRows(names, statuses) ==
    [i \in 1..Len(names) |->
        [id |-> i, name |-> names[i], status |-> statuses[i]]]

\* the attributes and methods an AlertTable object has, its own and those
\* of AlertBaseComponent and AlertComponentAction
AlertTableAttrs ==
    {"ROWS", "COLS", "COLS_NO", "EDIT_BUTTON", "ENABLE_DISABLE",
     "CLONE_BUTTON", "MOVE_BUTTON", "SEARCH_BUTTON", "DELETE_POPUP",
     "DELETE_BUTTON", "DELETE_CANCEL", "DELETE_CLOSE", "CLEAR_FILTER",
     "ALERT_KEY", "SWITCH_PAGE",
     "name", "value", "driver", "wait", "action", "locator",
     "get_list_of_rows", "get_total_rows_elements", "get_row",
     "get_rows_count", "get_expanded_row_value", "delete_row", "edit_row",
     "clone_row", "get_column_list", "get_column_value", "_column_value",
     "search", "clear_search", "next_page", "prev_page", "switch_to",
     "get_input_count", "sort_table", "get_headers", "update_status",
     "_is_element_clickable", "_wait_to_be_stale",
     "get_alert_help_text_list", "get_alert_labels_list",
     "get_element", "_find_element", "_find_elements", "click_element",
     "enter_text", "wait_for_element", "wait_for_element_invisible",
     "wait_for_element_clickable", "_hover_element", "get_text",
     "get_element_text", "get_updated_message"}

\* del_btn.click() raising, the control being covered or gone
ClickFailed == "ElementClickInterceptedException"

\* the rows without the row of the given id
RemoveRow(rs, id) == SelectSeq(rs, LAMBDA r : r.id # id)

\* the popup step with the popup's delete control found by its locator and
\* clicked whatever the action
PopupStep_ConfirmByLocator(action) ==
    [exc |-> NoExc, confirmed |-> TRUE, dismissed |-> TRUE]

\* the branch of delete_row on action, once the popup is displayed:
\* self.delete_btn.click(), self.close() or self.cancel()
PopupStep(action) ==
    LET attr == IF action = "delete" THEN "delete_btn"
                ELSE IF action = "close" THEN "close"
                ELSE "cancel"
    IN  IF attr \notin AlertTableAttrs
        THEN [exc |-> AttributeError, confirmed |-> FALSE, dismissed |-> FALSE]
        ELSE [exc |-> NoExc, confirmed |-> action = "delete",
              dismissed |-> TRUE]

\* the outcome of delete_row: the return value, the exception raised and
\* the one logged, the rows and the popup afterwards, the row get_row
\* resolved and the page it left the browser on, the clicks on the row's
\* delete control and on the popup's confirm control, and whether the popup
\* was waited for and seen displayed, then seen gone
DeleteResult(ret, exc, rs, pop, found, endPage, dels, confs, vis, invis) ==
    [ret |-> ret, exc |-> exc, logged |-> NoExc, rows |-> rs, popup |-> pop,
     out |-> found, endPage |-> endPage, delClicks |-> dels,
     confirmClicks |-> confs, sawVisible |-> vis, sawInvisible |-> invis]

\* the try block of delete_row, w being what its get_row call does
DeleteRowSteps(w, p, locs, pop, action, clickOk, popupShows) ==
    LET tc == WaitForElement(locs, "table_container", tableVisible)
        del_btn == GetLocator(locs, "delete_btn")
        click == IF clickOk THEN NoExc ELSE ClickFailed
        pop1 == pop \/ popupShows
        wp == WaitForElement(locs, "popup", pop1)
        step == PopupStep(action)
        rs2 == IF step.confirmed THEN RemoveRow(rows, w.out[1]) ELSE rows
        pop2 == IF step.dismissed THEN FALSE ELSE pop1
        wi == WaitForElementInvisible(locs, "popup", pop2)
    IN  IF tc # NoExc
        THEN DeleteResult("raised", tc, rows, pop, <<>>, p, 0, 0, FALSE, FALSE)
        ELSE IF w.exc # NoExc
        THEN DeleteResult("raised", w.exc, rows, pop, <<>>, w.endPage, 0, 0,
                          FALSE, FALSE)
        ELSE IF del_btn.exc # NoExc
        THEN DeleteResult("raised", del_btn.exc, rows, pop, w.out, w.endPage,
                          0, 0, FALSE, FALSE)
        ELSE IF click # NoExc
        THEN DeleteResult("raised", click, rows, pop, w.out, w.endPage, 0, 0,
                          FALSE, FALSE)
        ELSE IF wp # NoExc
        THEN DeleteResult("raised", wp, rows, pop1, w.out, w.endPage, 1, 0,
                          FALSE, FALSE)
        ELSE IF step.exc # NoExc
        THEN DeleteResult("raised", step.exc, rows, pop1, w.out, w.endPage,
                          1, 0, TRUE, FALSE)
        ELSE IF wi # NoExc
        THEN DeleteResult("raised", wi, rs2, pop2, w.out, w.endPage, 1,
                          IF step.confirmed THEN 1 ELSE 0, TRUE, FALSE)
        ELSE DeleteResult("True", NoExc, rs2, pop2, w.out, w.endPage, 1,
                          IF step.confirmed THEN 1 ELSE 0, TRUE, TRUE)

DeleteRowBody(p, locs, pop, input_name, action, clickOk, popupShows) ==
    DeleteRowSteps(GetRowFrom(p, input_name, S_name, FALSE), p, locs, pop,
                   action, clickOk, popupShows)

\* delete_row without its try/except
DeleteRowFrom_NoTry(p, locs, pop, input_name, action, clickOk, popupShows) ==
    DeleteRowBody(p, locs, pop, input_name, action, clickOk, popupShows)

\* delete_row: the try block, and False for whatever it raises
DeleteRowFrom(p, locs, pop, input_name, action, clickOk, popupShows) ==
    CatchAll(DeleteRowBody(p, locs, pop, input_name, action, clickOk,
                           popupShows))

\* the label a click on the row's toggle leaves: an enabled row becomes
\* disabled and any other row enabled
ToggledStatus(status) ==
    IF Lower(Strip(status)) = S_enabled THEN S_Disabled ELSE S_Enabled

\* update_status clicking the toggle whenever enable is asked for
UpdateStatusClicks_OnEnable(status_label, enable) == enable

\* the test update_status clicks the toggle on
UpdateStatusClicks(status_label, enable) ==
    \/ (status_label # S_enabled /\ enable)
    \/ (status_label = S_enabled /\ ~enable)

\* update_status, w being what its get_row call does
UpdateStatusOf(w, enable) ==
    IF w.exc # NoExc
    THEN [ret |-> "raised", exc |-> w.exc, rows |-> rows, out |-> <<>>,
          endPage |-> w.endPage, label |-> <<>>, clicks |-> 0]
    ELSE LET i == CHOOSE k \in DOMAIN rows : rows[k].id = w.out[1]
             status_label == Lower(Strip(rows[i].status))
         IN  IF UpdateStatusClicks(status_label, enable)
             THEN [ret |-> "None", exc |-> NoExc,
                   rows |-> [rows EXCEPT
                               ![i].status = ToggledStatus(rows[i].status)],
                   out |-> w.out, endPage |-> w.endPage,
                   label |-> status_label, clicks |-> 1]
             ELSE [ret |-> "None", exc |-> NoExc, rows |-> rows,
                   out |-> w.out, endPage |-> w.endPage,
                   label |-> status_label, clicks |-> 0]

UpdateStatusFrom(p, input_name, enable) ==
    UpdateStatusOf(GetRowFrom(p, input_name, S_name, FALSE), enable)

RowsCall(op, input_name, action, enable, clickOk, popupShows, r) ==
    [op |-> op, value |-> input_name, action |-> action, enable |-> enable,
     clickOk |-> clickOk, popupShows |-> popupShows, before |-> rows,
     startPage |-> curPage, ret |-> r.ret, exc |-> r.exc, out |-> r.out]

\* the registry after the get_row(input_name) a row workflow starts with
RowLookupLocators(input_name) ==
    IF AnyRowRead(GetRowFrom(curPage, input_name, S_name, FALSE))
    THEN RegisterTempCol(locators, S_name)
    ELSE locators

delete_row(input_name, action, clickOk, popupShows) ==
    LET r == DeleteRowFrom(curPage, locators, popup, input_name, action,
                           clickOk, popupShows)
    IN  /\ lastOp' = RowsCall("delete_row", input_name, action, FALSE,
                              clickOk, popupShows, r)
                         @@ [logged |-> r.logged,
                             delClicks |-> r.delClicks,
                             confirmClicks |-> r.confirmClicks,
                             sawVisible |-> r.sawVisible,
                             sawInvisible |-> r.sawInvisible]
        /\ rows' = r.rows
        /\ popup' = r.popup
        /\ curPage' = r.endPage
        /\ locators' = RowLookupLocators(input_name)
        /\ UNCHANGED <<hostVars, pageSize, lastMode, tableVisible, headers, colOp,
                       modal, container>>

update_status(input_name, enable) ==
    LET r == UpdateStatusFrom(curPage, input_name, enable) IN
    /\ lastOp' = RowsCall("update_status", input_name, None, enable, FALSE,
                          FALSE, r)
                     @@ [label |-> r.label, clicks |-> r.clicks]
    /\ rows' = r.rows
    /\ curPage' = r.endPage
    /\ locators' = RowLookupLocators(input_name)
    /\ UNCHANGED <<hostVars, pageSize, lastMode, tableVisible, headers, colOp, popup,
                   modal, container>>

(***************************************************************************)
(* The table under delete_row: none, one or two rows named "Foo" (with     *)
(* white space around it) or "FooBar", freshly loaded on page 1; the last  *)
(* page's "next" control is disabled or missing.  The row's delete control *)
(* may fail to be clicked, and the popup may fail to appear.               *)
(***************************************************************************)
RowInputNames == {S_Foo, S_FooBar}

DeleteActions == {None, "delete", "cancel", "close"}

RowNames == {S_FooWs, S_FooBar}

RowNameLists ==
    {<<>>} \cup {<<n>> : n \in RowNames}
           \cup {<<n1, n2>> : n1 \in RowNames, n2 \in RowNames}

InitDelete ==
    /\ HostInit
    /\ rows \in {MkRows(names) : names \in RowNameLists}
    /\ pageSize \in 1..MaxPageSize
    /\ lastMode \in {"disabled", "nonext"}
    /\ tableVisible = TRUE
    /\ curPage = 1
    /\ headers = FixedHeaders
    /\ colOp = NoColumnCall
    /\ lastOp = NoCall
    /\ locators = TableLocators
    /\ popup = FALSE
    /\ modal = FALSE
    /\ container = NoContainer

NextDelete ==
    \E input_name \in RowInputNames, action \in DeleteActions,
       clickOk \in BOOLEAN, popupShows \in BOOLEAN :
        /\ popupShows => clickOk
        /\ delete_row(input_name, action, clickOk, popupShows)

SpecDelete == InitDelete /\ [][NextDelete]_vars

(***************************************************************************)
(* The table under update_status: one row, or two rows of different names, *)
(* each showing one of the status texts, freshly loaded on page 1.         *)
(***************************************************************************)
StatusTables ==
    {MkStatusRows(<<n>>, <<st>>) : n \in RowNames, st \in StatusTexts}
    \cup {MkStatusRows(<<ns[1], ns[2]>>, <<st1, st2>>) :
            ns \in {<<S_FooWs, S_FooBar>>, <<S_FooBar, S_FooWs>>},
            st1 \in StatusTexts, st2 \in StatusTexts}

InitStatus ==
    /\ HostInit
    /\ rows \in StatusTables
    /\ pageSize \in 1..MaxPageSize
    /\ lastMode = "disabled"
    /\ tableVisible = TRUE
    /\ curPage = 1
    /\ headers = FixedHeaders
    /\ colOp = NoColumnCall
    /\ lastOp = NoCall
    /\ locators = TableLocators
    /\ popup = FALSE
    /\ modal = FALSE
    /\ container = NoContainer

NextStatus ==
    \E input_name \in RowInputNames, enable \in BOOLEAN :
        update_status(input_name, enable)

SpecStatus == InitStatus /\ [][NextStatus]_vars

\* the handles a get_list_of_rows called now would return
ListedNow == GetListOfRowsFrom(curPage, <<>>)

InSeq(x, sq) == \E k \in DOMAIN sq : sq[k] = x

(***************************************************************************)
(* C13 as stated: delete_row(name, action='delete') on a row that get_row  *)
(* resolves, with the row's delete control clickable and the popup         *)
(* appearing, clicks that control once, confirms the popup, returns True,  *)
(* and the row is in the table no more, nor in what get_list_of_rows       *)
(* returns next.                                                           *)
(***************************************************************************)
C13_DeleteConfirmsAndRemoves ==
    (lastOp.op = "delete_row" /\ lastOp.action = "delete"
        /\ lastOp.out # <<>> /\ lastOp.clickOk /\ lastOp.popupShows)
    => /\ lastOp.ret = "True"
       /\ lastOp.delClicks = 1
       /\ lastOp.confirmClicks = 1
       /\ \A k \in DOMAIN rows : rows[k].id # lastOp.out[1]
       /\ ~InSeq(lastOp.out[1], ListedNow.out)

(***************************************************************************)
(* C14: delete_row(name) with action None, 'cancel' or 'close' leaves the  *)
(* rows of the table as they were and never clicks the popup's confirm     *)
(* control; the row it resolved still carries the name and is among the    *)
(* handles a get_list_of_rows called next returns, when that call returns. *)
(***************************************************************************)
C14_PeekLeavesRows ==
    (lastOp.op = "delete_row" /\ lastOp.action \in {None, "cancel", "close"})
    => /\ rows = lastOp.before
       /\ lastOp.confirmClicks = 0
       /\ lastOp.out # <<>>
              => /\ GetElementText(RowById(lastOp.out[1]).name) = lastOp.value
                 /\ ListedNow.exc = NoExc
                        => InSeq(lastOp.out[1], ListedNow.out)

\* peek mode on a row of the second page: the row's delete control is
\* clicked, the popup is seen, and the row is listed afterwards
C14_Witness ==
    /\ lastOp.op = "delete_row"
    /\ lastOp.action = None
    /\ lastOp.out # <<>>
    /\ lastOp.startPage = 1
    /\ curPage = 2
    /\ lastOp.delClicks = 1
    /\ lastOp.sawVisible
    /\ rows = lastOp.before
    /\ ListedNow.exc = NoExc
    /\ InSeq(lastOp.out[1], ListedNow.out)

(***************************************************************************)
(* C15: delete_row never raises.  It returns False, with the failure       *)
(* logged, when the row is not found, when the click on the row's delete   *)
(* control fails, when the popup does not appear and when the popup is not *)
(* seen to close; it returns True only after the popup was seen displayed  *)
(* and afterwards seen gone.                                               *)
(***************************************************************************)
C15_DeleteRowNeverRaises ==
    lastOp.op = "delete_row"
    => /\ lastOp.exc = NoExc
       /\ lastOp.ret \in {"True", "False"}
       /\ lastOp.ret = "False" <=> lastOp.logged # NoExc
       /\ lastOp.out = <<>> => lastOp.ret = "False"
       /\ ~lastOp.clickOk => lastOp.ret = "False"
       /\ ~lastOp.sawVisible => lastOp.ret = "False"
       /\ ~lastOp.sawInvisible => lastOp.ret = "False"
       /\ lastOp.ret = "True"
              => (lastOp.sawVisible /\ lastOp.sawInvisible /\ ~popup)

\* the row is found and its delete control clicked, the popup never shows
C15_Witness ==
    /\ lastOp.op = "delete_row"
    /\ lastOp.out # <<>>
    /\ lastOp.delClicks = 1
    /\ ~lastOp.sawVisible
    /\ lastOp.logged = Timeout
    /\ lastOp.ret = "False"
    /\ ~popup

\* what C16 says of one update_status call, read from its record
C16_ClickIffDiffers ==
    lastOp.op = "update_status"
    => /\ lastOp.exc # NoExc => (lastOp.clicks = 0 /\ rows = lastOp.before)
       /\ lastOp.exc = NoExc
          => LET i == CHOOSE k \in DOMAIN lastOp.before :
                          lastOp.before[k].id = lastOp.out[1]
                 isEnabled ==
                     Lower(Strip(lastOp.before[i].status)) = S_enabled
             IN  /\ lastOp.clicks = (IF isEnabled # lastOp.enable THEN 1 ELSE 0)
                 /\ lastOp.clicks = 0 => rows = lastOp.before
                 /\ lastOp.clicks = 1
                        => rows = [lastOp.before EXCEPT
                                     ![i].status = ToggledStatus(@)]

MaxRetry == 3

NoError == [kind |-> "none", attempt |-> 0]

\* exe = Exception(), the value raise exe has when no attempt replaced it
BareException == [kind |-> "Exception", attempt |-> 0]

\* how one construction of WebDriverHelper goes in the environment
AttemptOutcomes == {"driver_error", "login_error", "ok"}

Event(ev, n) == [ev |-> ev, n |-> n]

\* login leaving the driver open when it fails
Login_NoQuit(n, outcome) ==
    IF outcome = "login_error"
    THEN [exc |-> [kind |-> "LoginError", attempt |-> n], events |-> <<>>]
    ELSE [exc |-> NoError, events |-> <<>>]

\* WebDriverHelper.login called on driver n: an exception quits the driver
\* and is raised again
Login(n, outcome) ==
    IF outcome = "login_error"
    THEN [exc |-> [kind |-> "LoginError", attempt |-> n],
          events |-> <<Event("quit", n)>>]
    ELSE [exc |-> NoError, events |-> <<>>]

\* WebDriverHelper(config) built in the loop's pass n: setup_driver, which
\* creates the driver as its last step or raises, and then login
WebDriverHelperInit(n, outcome) ==
    IF outcome = "driver_error"
    THEN [exc |-> [kind |-> "WebDriverException", attempt |-> n],
          events |-> <<Event("attempt", n)>>, driver |-> 0]
    ELSE LET l == Login(n, outcome) IN
         [exc |-> l.exc,
          events |-> <<Event("attempt", n), Event("create", n)>> \o l.events,
          driver |-> IF l.exc = NoError THEN n ELSE 0]

HelperState(phase, exc, events, attempts, driver) ==
    [phase |-> phase, exc |-> exc, events |-> events, attempts |-> attempts,
     driver |-> driver]

\* the loop without its break: every pass is made and the loop's else
\* raises exe
RECURSIVE SeleniumHelperFrom_NoBreak(_, _, _, _)
SeleniumHelperFrom_NoBreak(n, retry, outcomes, exe) ==
    IF n > retry THEN HelperState("raised", exe, <<>>, 0, 0)
    ELSE LET h == WebDriverHelperInit(n, outcomes[n])
             e == IF h.exc = NoError THEN exe ELSE h.exc
             rest == SeleniumHelperFrom_NoBreak(n + 1, retry, outcomes, e)
         IN  HelperState(rest.phase, rest.exc, h.events \o rest.events,
                         rest.attempts + 1, rest.driver)

\* the body of selenium_helper up to its yield, from pass n of the loop
\* (n is _try + 1): for _try in range(config._retry), break on success,
\* the loop's else raising exe
RECURSIVE SeleniumHelperFrom(_, _, _, _)
SeleniumHelperFrom(n, retry, outcomes, exe) ==
    IF n > retry THEN HelperState("raised", exe, <<>>, 0, 0)
    ELSE LET h == WebDriverHelperInit(n, outcomes[n]) IN
         IF h.exc = NoError
         THEN HelperState("yielded", NoError, h.events, 1, h.driver)
         ELSE LET rest == SeleniumHelperFrom(n + 1, retry, outcomes, h.exc) IN
              HelperState(rest.phase, rest.exc, h.events \o rest.events,
                          rest.attempts + 1, rest.driver)

\* the scopes pytest knows; --scope takes any string
ScopeOptions == {"function", "class", "module", "package", "session"}

\* get_scope(fixture_name, config), given config.getoption("--scope")
GetScope(option) ==
    IF option = None THEN "function"
    ELSE IF option = "module" THEN "module"
    ELSE IF option = "class" THEN "class"
    ELSE "session"

\* item.nodeid as its "::"-separated parts
NodeIds ==
    {<<"test_table.py", "test_sort">>,
     <<"test_table.py", "TestTable", "test_delete">>}

\* item.nodeid.split("::")[-1]
TestName(nodeid) == nodeid[Len(nodeid)]

\* the fixture called by pytest in the item's setup phase; outcomes is how
\* each construction of WebDriverHelper goes
selenium_helper(outcomes) ==
    /\ helper.phase = "idle"
    /\ item.phase = "collected"
    /\ helper' = SeleniumHelperFrom(1, config.retry, outcomes, BareException)
                   @@ [scope |-> GetScope(config.scope), outcomes |-> outcomes]
    /\ UNCHANGED <<tableVars, curPage, headers, colOp, lastOp, locators, popup,
                   modal, container, config, item, logger, threads, options>>

\* the hook wrapper storing the report of one phase on the item.  pytest
\* runs the call phase only after a setup phase that passed, and the setup
\* phase fails when a fixture raised
pytest_runtest_makereport(when, failed) ==
    /\ \/ /\ when = "setup"
          /\ item.phase = "collected"
          /\ helper.phase \in {"yielded", "raised"}
          /\ helper.phase = "raised" => failed
       \/ /\ when = "call"
          /\ item.phase = "setup"
          /\ item.rep_setup = "passed"
    /\ item' = IF when = "setup"
               THEN [item EXCEPT !.rep_setup = IF failed THEN "failed" ELSE "passed",
                                 !.phase = "setup"]
               ELSE [item EXCEPT !.rep_call = IF failed THEN "failed" ELSE "passed",
                                 !.phase = "call"]
    /\ UNCHANGED <<tableVars, curPage, headers, colOp, lastOp, locators, popup,
                   modal, container, config, helper, logger, threads, options>>

\* log_on_failure after its yield: item.rep_call is read first and is an
\* AttributeError on an item whose call phase never ran; every exception of
\* the try block is logged and dropped
LogOnFailure(it, shotOk) ==
    IF it.rep_call = "absent" THEN [attached |-> <<>>, raised |-> FALSE]
    ELSE IF it.rep_call = "failed"
    THEN [attached |-> IF shotOk THEN <<TestName(it.nodeid)>> ELSE <<>>,
          raised |-> FALSE]
    ELSE IF it.rep_setup = "failed"
    THEN [attached |-> IF shotOk THEN <<"login_error">> ELSE <<>>,
          raised |-> FALSE]
    ELSE [attached |-> <<>>, raised |-> FALSE]

\* the teardown of log_on_failure: it runs when the fixture was set up,
\* which needs selenium_helper to have yielded; shotOk is whether the
\* driver delivers the screenshot
log_on_failure(shotOk) ==
    LET r == LogOnFailure(item, shotOk) IN
    /\ helper.phase = "yielded"
    /\ \/ item.phase = "call"
       \/ item.phase = "setup" /\ item.rep_setup = "failed"
    /\ item' = [item EXCEPT !.attached = r.attached, !.raised = r.raised,
                            !.shotOk = shotOk, !.phase = "logged"]
    /\ UNCHANGED <<tableVars, curPage, headers, colOp, lastOp, locators, popup,
                   modal, container, config, helper, logger, threads, options>>

\* selenium_helper after its yield, run by pytest after log_on_failure's
\* teardown: splunk_driver_helper.driver.quit()
selenium_helper_teardown ==
    /\ helper.phase = "yielded"
    /\ item.phase = "logged"
    /\ helper' = [helper EXCEPT !.phase = "closed",
                                !.events = @ \o <<Event("quit", helper.driver)>>]
    /\ UNCHANGED <<tableVars, curPage, headers, colOp, lastOp, locators, popup,
                   modal, container, config, item, logger, threads, options>>

InitSession ==
    /\ rows = <<>>
    /\ pageSize = 1
    /\ lastMode = "disabled"
    /\ tableVisible = TRUE
    /\ curPage = 1
    /\ headers = FixedHeaders
    /\ colOp = NoColumnCall
    /\ lastOp = NoCall
    /\ locators = TableLocators
    /\ popup = FALSE
    /\ modal = FALSE
    /\ container = NoContainer
    /\ config \in [retry : 0..MaxRetry, scope : ScopeOptions]
    /\ helper = NoHelper
    /\ item \in {NoItem @@ [nodeid |-> id] : id \in NodeIds}
    /\ logger = NoLogger
    /\ threads = <<>>
    /\ options = <<>>

NextSession ==
    \/ \E outcomes \in [1..config.retry -> AttemptOutcomes] :
           selenium_helper(outcomes)
    \/ \E when \in {"setup", "call"}, failed \in BOOLEAN :
           pytest_runtest_makereport(when, failed)
    \/ \E shotOk \in BOOLEAN : log_on_failure(shotOk)
    \/ selenium_helper_teardown

SpecSession == InitSession /\ [][NextSession]_vars

(***************************************************************************)
(* Claims about the bootstrap and the plugin.                              *)
(***************************************************************************)
\* the loop pass of the first construction that succeeds, 0 when none does
FirstOk(outcomes) ==
    IF \E i \in DOMAIN outcomes : outcomes[i] = "ok"
    THEN CHOOSE i \in DOMAIN outcomes :
             /\ outcomes[i] = "ok"
             /\ \A j \in 1..(i - 1) : outcomes[j] # "ok"
    ELSE 0

\* the positions of an event in the fixture's trace
EventAt(ev, n) == {i \in DOMAIN helper.events : helper.events[i] = Event(ev, n)}

\* C21: selenium_helper constructs WebDriverHelper at most --retry times and
\* stops at the first construction that succeeds; when every construction
\* fails it has made exactly --retry attempts and raises the exception of
\* the last one; with --retry 0 it makes no attempt and raises.
C21_RetryUntilFirstSuccess ==
    helper.phase # "idle" =>
        LET k == FirstOk(helper.outcomes)
            made == {i \in DOMAIN helper.events : helper.events[i].ev = "attempt"}
        IN  /\ helper.attempts <= config.retry
            /\ Cardinality(made) = helper.attempts
            /\ k # 0 => /\ helper.phase \in {"yielded", "closed"}
                        /\ helper.attempts = k
                        /\ helper.driver = k
            /\ k = 0 => /\ helper.phase = "raised"
                        /\ helper.attempts = config.retry
                        /\ config.retry = 0 => helper.exc = BareException
                        /\ config.retry > 0 =>
                               /\ helper.exc.attempt = config.retry
                               /\ helper.exc.kind # "Exception"

C21_Witness ==
    /\ helper.phase = "yielded"
    /\ helper.attempts = 2
    /\ config.retry > 2

\* C22: every driver created during the bootstrap is quit exactly once: the
\* driver of a construction whose login fails is quit right after it was
\* created, before the next attempt, and the driver of the construction that
\* succeeded is quit by the fixture's teardown and not before.
C22_EveryDriverQuitOnce ==
    \A n \in DOMAIN helper.outcomes :
        /\ Cardinality(EventAt("create", n)) <= 1
        /\ Cardinality(EventAt("quit", n)) <= Cardinality(EventAt("create", n))
        /\ \A i \in EventAt("create", n) :
               /\ helper.outcomes[n] = "login_error" =>
                      EventAt("quit", n) = {i + 1}
               /\ helper.outcomes[n] = "ok" =>
                      /\ helper.phase = "yielded" => EventAt("quit", n) = {}
                      /\ helper.phase = "closed" =>
                             EventAt("quit", n) = {Len(helper.events)}
                      /\ helper.phase \in {"yielded", "closed"}

C22_Witness ==
    /\ helper.phase = "closed"
    /\ \E n \in DOMAIN helper.outcomes :
           /\ helper.outcomes[n] = "login_error"
           /\ EventAt("quit", n) # {}
    /\ EventAt("quit", helper.driver) = {Len(helper.events)}

\* C27: the scope selenium_helper is registered with is the value of
\* --scope, for each of function (the default), module, class and session.
C27_ScopeFollowsOption ==
    (helper.phase # "idle"
        /\ config.scope \in {"function", "module", "class", "session"})
    => helper.scope = config.scope

\* C28: at teardown, with the driver delivering screenshots, log_on_failure
\* attaches one screenshot named after the test when the call phase failed,
\* one named login_error when the setup phase failed instead, none when both
\* passed, and raises nothing.
C28_ScreenshotPerFailedPhase ==
    (item.phase = "logged" /\ item.shotOk) =>
        /\ ~item.raised
        /\ item.attached =
              IF item.rep_call = "failed" THEN <<TestName(item.nodeid)>>
              ELSE IF item.rep_setup = "failed" THEN <<"login_error">>
              ELSE <<>>

(***************************************************************************)
(* Logger.get_logger (log/logging.py) called by several threads at once.   *)
(* A thread's step is one read or write of the class attributes, which is  *)
(* what the interpreter makes atomic; an object is named by the thread     *)
(* that constructs it, and 0 is None.                                      *)
(***************************************************************************)
MaxThreads == 3

Thread(pc, ret, ready) == [pc |-> pc, ret |-> ret, ready |-> ready]

Goto(t, pc) == [threads EXCEPT ![t].pc = pc]

\* line 29: if Logger._instance is None
check_instance(t) ==
    /\ threads[t].pc = "check_instance"
    /\ threads' = Goto(t, IF logger.instance = 0 THEN "acquire" ELSE "return")
    /\ UNCHANGED <<tableVars, curPage, headers, colOp, lastOp, locators, popup,
                   modal, container, config, helper, item, logger, options>>

\* line 30: with Logger._lock, entered when the lock is free
acquire(t) ==
    /\ threads[t].pc = "acquire"
    /\ logger.lock = 0
    /\ logger' = [logger EXCEPT !.lock = t]
    /\ threads' = Goto(t, "recheck")
    /\ UNCHANGED <<tableVars, curPage, headers, colOp, lastOp, locators, popup,
                   modal, container, config, helper, item, options>>

\* line 31: the second test, under the lock; when it fails the with block
\* is left and the lock released
recheck(t) ==
    /\ threads[t].pc = "recheck"
    /\ IF logger.instance = 0
       THEN /\ threads' = Goto(t, "init")
            /\ UNCHANGED logger
       ELSE /\ threads' = Goto(t, "return")
            /\ logger' = [logger EXCEPT !.lock = 0]
    /\ UNCHANGED <<tableVars, curPage, headers, colOp, lastOp, locators, popup,
                   modal, container, config, helper, item, options>>

\* lines 41-44, the head of __init__: Logger._instance = self, or the
\* singleton exception, which leaves the with block
init(t) ==
    /\ threads[t].pc = "init"
    /\ IF logger.instance # 0
       THEN /\ threads' = Goto(t, "raised")
            /\ logger' = [logger EXCEPT !.lock = 0]
       ELSE /\ threads' = Goto(t, "setup")
            /\ logger' = [logger EXCEPT !.instance = t,
                                        !.built = (t :> "constructing") @@ @]
    /\ UNCHANGED <<tableVars, curPage, headers, colOp, lastOp, locators, popup,
                   modal, container, config, helper, item, options>>

\* lines 46-49, the rest of __init__: self.logger and its two handlers
setup(t) ==
    /\ threads[t].pc = "setup"
    /\ logger' = [logger EXCEPT !.built[t] = "ready"]
    /\ threads' = Goto(t, "assign")
    /\ UNCHANGED <<tableVars, curPage, headers, colOp, lastOp, locators, popup,
                   modal, container, config, helper, item, options>>

\* line 32: Logger._instance = <the new object>, and the end of the with
\* block
assign(t) ==
    /\ threads[t].pc = "assign"
    /\ logger' = [logger EXCEPT !.instance = t, !.lock = 0]
    /\ threads' = Goto(t, "return")
    /\ UNCHANGED <<tableVars, curPage, headers, colOp, lastOp, locators, popup,
                   modal, container, config, helper, item, options>>

\* line 33: return Logger._instance; ready records whether the object
\* returned had finished __init__ at that moment
return(t) ==
    /\ threads[t].pc = "return"
    /\ threads' = [threads EXCEPT ![t] =
                       Thread("done", logger.instance,
                              logger.built[logger.instance] = "ready")]
    /\ UNCHANGED <<tableVars, curPage, headers, colOp, lastOp, locators, popup,
                   modal, container, config, helper, item, logger, options>>

\* a thread calling get_logger
get_logger(t) ==
    /\ threads[t].pc = "idle"
    /\ threads' = Goto(t, "check_instance")
    /\ UNCHANGED <<tableVars, curPage, headers, colOp, lastOp, locators, popup,
                   modal, container, config, helper, item, logger, options>>

InitLogger ==
    /\ rows = <<>>
    /\ pageSize = 1
    /\ lastMode = "disabled"
    /\ tableVisible = TRUE
    /\ curPage = 1
    /\ headers = FixedHeaders
    /\ colOp = NoColumnCall
    /\ lastOp = NoCall
    /\ locators = TableLocators
    /\ popup = FALSE
    /\ modal = FALSE
    /\ container = NoContainer
    /\ config = DefaultConfig
    /\ helper = NoHelper
    /\ item = NoItem
    /\ logger = NoLogger
    /\ threads = [t \in 1..MaxThreads |-> Thread("idle", 0, FALSE)]
    /\ options = <<>>

NextLogger ==
    \E t \in 1..MaxThreads :
        \/ get_logger(t)
        \/ check_instance(t)
        \/ acquire(t)
        \/ recheck(t)
        \/ init(t)
        \/ setup(t)
        \/ assign(t)
        \/ return(t)

SpecLogger == InitLogger /\ [][NextLogger]_vars

\* the threads whose call has returned
Returned29 == {t \in DOMAIN threads : threads[t].pc = "done"}

\* C29: under concurrent first calls of get_logger exactly one Logger is
\* constructed, every caller is returned that one object, and the object
\* has finished its construction when it is returned.
C29_OneFinishedLogger ==
    /\ Cardinality(DOMAIN logger.built) <= 1
    /\ \A t \in DOMAIN threads : threads[t].pc # "raised"
    /\ \A t \in Returned29 :
           /\ threads[t].ret \in DOMAIN logger.built
           /\ threads[t].ready

(***************************************************************************)
(* AlertSelect (alerts/components/select.py): the select is opened by a    *)
(* click, or by the fallback click when that one fails, and the option is  *)
(* looked for among the option elements of the menu.                       *)
(***************************************************************************)
MaxOptions == 3

S_SelectValue == <<".","s","e","l">>
S_DataTestSelect ==
    <<" ","[","d","a","t","a","-","t","e","s","t","=","\"","s","e","l","e","c","t","\"","]">>
S_DataTestMenu == <<"[","d","a","t","a","-","t","e","s","t","=","\"","m","e","n","u","\"","]">>
S_DataTestOption == <<"[","d","a","t","a","-","t","e","s","t","=","\"","o","p","t","i","o","n","\"","]">>
S_LabelSelect ==
    <<"[","l","a","b","e","l","=","\"","S","e","l","e","c","t",".",".",".","\"","]">>

SelectNotFound == "ValueError: value is not found"

\* self.name of the AlertSelect under test
SelectName == "select"

\* the registry of AlertSelect(driver, "select", ".sel"): the container,
\* the entries of AlertBaseComponent and those of AlertSelect.__init__
SelectLocators ==
    UpdateLocaters(
      UpdateLocaters(
        LocatorInit(SelectName :> <<None, S_SelectValue>>),
        ("label_component" :> <<None, <<".control-label">>>>)
          @@ ("help" :> <<None, <<".help-block">>>>)),
      (SelectName :> <<None, S_SelectValue \o S_DataTestSelect>>)
        @@ ("menu" :> <<None, S_DataTestMenu>>)
        @@ ("values" :> <<None, S_DataTestOption>>))

\* the for loop of select: the index of the first option whose
\* text.strip().lower() equals value.lower(), 0 when the loop ends
RECURSIVE FirstOption(_, _, _)
FirstOption(opts, i, value) ==
    IF i > Len(opts) THEN 0
    ELSE IF Lower(Strip(opts[i])) = Lower(value) THEN i
    ELSE FirstOption(opts, i + 1, value)

SelectResult(ret, exc, clicked, fallback, sought) ==
    [ret |-> ret, exc |-> exc, clicked |-> clicked, fallback |-> fallback,
     sought |-> sought]

\* AlertSelect.select(value): in the except branch the name value is bound
\* again, to the selector of the fallback element, and the loop after it
\* compares the options with that
SelectFrom(locs, opts, value, clickOk, fallbackOk) ==
    LET shown == WaitForElement(locs, SelectName, TRUE)
        click == ClickElement(clickOk)
        l == GetLocator(locs, SelectName)
        value2 == IF click = NoExc THEN value
                  ELSE IF l.exc # NoExc THEN <<>>
                  ELSE l.ret[2] \o S_LabelSelect
        opened == IF click = NoExc THEN NoExc
                  ELSE IF l.exc # NoExc THEN l.exc
                  ELSE IF fallbackOk THEN NoExc ELSE Timeout
        menu == WaitForElement(locs, "menu", TRUE)
        values == GetLocator(locs, "values")
        idx == FirstOption(opts, 1, value2)
    IN  IF shown # NoExc THEN SelectResult("raised", shown, 0, FALSE, value)
        ELSE IF opened # NoExc
        THEN SelectResult("raised", opened, 0, click # NoExc, value2)
        ELSE IF menu # NoExc
        THEN SelectResult("raised", menu, 0, click # NoExc, value2)
        ELSE IF values.exc # NoExc
        THEN SelectResult("raised", values.exc, 0, click # NoExc, value2)
        ELSE IF idx # 0
        THEN SelectResult("True", NoExc, idx, click # NoExc, value2)
        ELSE SelectResult("raised", SelectNotFound, 0, click # NoExc, value2)

\* one call of select; clickOk and fallbackOk are whether the browser lets
\* the select and the fallback element be clicked
select(value, clickOk, fallbackOk) ==
    /\ lastOp' = [op |-> "select", value |-> value]
                   @@ SelectFrom(locators, options, value, clickOk, fallbackOk)
    /\ UNCHANGED <<tableVars, curPage, headers, colOp, locators, popup, modal,
                   container, hostVars>>

OptionLists == UNION {[1..n -> Texts] : n \in 0..MaxOptions}

InitSelect ==
    /\ rows = <<>>
    /\ pageSize = 1
    /\ lastMode = "disabled"
    /\ tableVisible = TRUE
    /\ curPage = 1
    /\ headers = FixedHeaders
    /\ colOp = NoColumnCall
    /\ lastOp = NoCall
    /\ locators = SelectLocators
    /\ popup = FALSE
    /\ modal = FALSE
    /\ container = NoContainer
    /\ config = DefaultConfig
    /\ helper = NoHelper
    /\ item = NoItem
    /\ logger = NoLogger
    /\ threads = <<>>
    /\ options \in OptionLists

NextSelect ==
    \E value \in Values, clickOk \in BOOLEAN, fallbackOk \in BOOLEAN :
        select(value, clickOk, fallbackOk)

SpecSelect == InitSelect /\ [][NextSelect]_vars

\* C30: once the select is open, through its own click or through the
\* fallback click, select(value) clicks the first option whose trimmed text
\* equals the value without regard to case and returns True, and raises
\* ValueError when no option does.
C30_SelectFirstMatchingOption ==
    (lastOp.op = "select" /\ lastOp.exc \in {NoExc, SelectNotFound}) =>
        LET first == FirstOption(options, 1, lastOp.value) IN
        /\ first # 0 => lastOp.ret = "True" /\ lastOp.clicked = first
        /\ first = 0 => lastOp.exc = SelectNotFound

(***************************************************************************)
(* C26: a full traversal (get_list_of_rows, or get_total_rows_elements     *)
(* consumed to its end) of a table of N pages, started on page 1, whose    *)
(* "next" control is present and not clickable on the last page, ends      *)
(* after exactly N-1 clicks on "next" and reads the rows of each page      *)
(* exactly once, in page order.                                            *)
(***************************************************************************)
C26_FullWalkClicksAndReads ==
    (/\ lastOp.op \in {"get_list_of_rows", "get_total_rows_elements"}
     /\ lastOp.startPage = 1
     /\ lastMode \in {"hidden", "disabled"})
    => /\ lastOp.exc = NoExc
       /\ lastOp.clicks = NumPages - 1
       /\ lastOp.pagesRead = [i \in 1..NumPages |-> i]
       /\ lastOp.endPage = NumPages

C26_Witness ==
    /\ lastOp.op = "get_total_rows_elements"
    /\ lastOp.startPage = 1
    /\ lastMode = "hidden"
    /\ NumPages = 3
    /\ lastOp.clicks = 2
    /\ lastOp.pagesRead = <<1, 2, 3>>

(***************************************************************************)
(* The order of the steps inside one call.  A run is the call so far: the  *)
(* trace of the steps that touch the table (waits for the table container, *)
(* searches for the row elements, reads of a row's cell, clicks on "next", *)
(* text typed into the search box, the table re-rendering, staleness       *)
(* waits), the page shown, the exception raised and the result.  A row     *)
(* handle is the row's id with the position in the trace of the search     *)
(* that obtained it.  The container stays displayed up to the wait number  *)
(* hideAt of the call, which fails, as do all after it; 0 is never.        *)
(***************************************************************************)
MaxWaits == 5

TraceEvent(ev, page, ids) == [ev |-> ev, page |-> page, ids |-> ids]

Run(tr, page, exc, ret, out, val) ==
    [tr |-> tr, page |-> page, exc |-> exc, ret |-> ret, out |-> out,
     val |-> val]

StartRun(p) == Run(<<>>, p, NoExc, "None", <<>>, <<>>)

Log(r, ev, ids) == [r EXCEPT !.tr = Append(@, TraceEvent(ev, r.page, ids))]

Raise(r, exc) == [r EXCEPT !.exc = exc, !.ret = "raised", !.out = <<>>]

WaitsIn(tr) ==
    Cardinality({i \in DOMAIN tr : tr[i].ev \in {"wait", "wait_failed"}})

\* wait_for_element("table_container") going on after a wait that failed
WaitTable_NoRaise(r, hideAt) ==
    IF r.exc # NoExc THEN r
    ELSE IF hideAt = 0 \/ WaitsIn(r.tr) + 1 < hideAt THEN Log(r, "wait", <<>>)
    ELSE Log(r, "wait_failed", <<>>)

\* wait_for_element("table_container"): wait.until returns when the
\* container is displayed and raises TimeoutException when it is not
WaitTable(r, hideAt) ==
    IF r.exc # NoExc THEN r
    ELSE IF hideAt = 0 \/ WaitsIn(r.tr) + 1 < hideAt THEN Log(r, "wait", <<>>)
    ELSE Raise(Log(r, "wait_failed", <<>>), Timeout)

\* the handles self._find_elements(*get_locator("rows")) returns when it
\* is the next step of the run
FoundAt(r) ==
    LET rs == PageRows(r.page) IN
    [k \in 1..Len(rs) |-> [id |-> rs[k].id, at |-> Len(r.tr) + 1]]

\* self._find_elements(*self.locator.get_locator("rows"))
FindRows(r) ==
    IF r.exc # NoExc THEN r ELSE Log(r, "find_rows", Handles(PageRows(r.page)))

\* next_page after its wait: the click on "next" when it is clickable
NextPageTurn(w, t) ==
    IF w.exc # NoExc THEN w
    ELSE IF t.exc # NoExc THEN Raise(w, t.exc)
    ELSE IF t.clicked
    THEN [Log(w, "click_next", <<>>) EXCEPT !.page = t.page, !.ret = "True"]
    ELSE [w EXCEPT !.ret = "False"]

NextPageAfterWait(w) == NextPageTurn(w, TurnPage(w.page, S_next))

\* next_page: the wait, then the click
NextPageRun(r, hideAt) == NextPageAfterWait(WaitTable(r, hideAt))

\* get_list_of_rows returning the rows of the last page only
RECURSIVE ListRun_NoExtend(_, _, _)
ListNoExtendAfterNext(np, hideAt, current_rows) ==
    IF np.exc # NoExc THEN np
    ELSE IF np.ret = "True" THEN ListRun_NoExtend(np, hideAt, current_rows)
    ELSE [np EXCEPT !.ret = "list", !.out = current_rows]

ListNoExtendAfterWait(w, hideAt, acc) ==
    IF w.exc # NoExc THEN w
    ELSE ListNoExtendAfterNext(NextPageRun(FindRows(w), hideAt), hideAt,
                               FoundAt(w))

ListRun_NoExtend(r, hideAt, acc) ==
    ListNoExtendAfterWait(WaitTable(r, hideAt), hideAt, acc)

\* get_list_of_rows(rows): wait, find, extend, next_page, recurse
RECURSIVE ListRun(_, _, _)
ListAfterNext(np, hideAt, extended) ==
    IF np.exc # NoExc THEN np
    ELSE IF np.ret = "True" THEN ListRun(np, hideAt, extended)
    ELSE [np EXCEPT !.ret = "list", !.out = extended]

ListAfterWait(w, hideAt, acc) ==
    IF w.exc # NoExc THEN w
    ELSE ListAfterNext(NextPageRun(FindRows(w), hideAt), hideAt,
                       acc \o FoundAt(w))

ListRun(r, hideAt, acc) == ListAfterWait(WaitTable(r, hideAt), hideAt, acc)

\* get_total_rows_elements consumed to its end
RECURSIVE StreamRun(_, _, _)
StreamAfterNext(np, hideAt, yielded) ==
    IF np.exc # NoExc THEN np
    ELSE IF np.ret = "True" THEN StreamRun(np, hideAt, yielded)
    ELSE [np EXCEPT !.ret = "exhausted", !.out = yielded]

StreamAfterWait(w, hideAt, acc) ==
    IF w.exc # NoExc THEN w
    ELSE StreamAfterNext(NextPageRun(FindRows(w), hideAt), hideAt,
                         acc \o FoundAt(w))

StreamRun(r, hideAt, acc) == StreamAfterWait(WaitTable(r, hideAt), hideAt, acc)

\* _column_value(row, column) after its wait: the cell of the row
ColumnValueRead(w, cv, row) ==
    IF w.exc # NoExc THEN w
    ELSE IF cv.exc # NoExc THEN Raise(w, cv.exc)
    ELSE [Log(w, "read_cell", <<row.id>>) EXCEPT !.ret = "text", !.val = cv.val]

\* _column_value(row, column): the wait, then the cell of the row
ColumnValueRun(r, hideAt, row, column) ==
    ColumnValueRead(WaitTable(r, hideAt), ColumnValue(row, column), row)

\* get_row's loop over the rows the generator yields from one page
RECURSIVE ScanRun(_, _, _, _, _, _, _, _)
ScanTest(c, hideAt, rs, hs, i, value, column, is_search) ==
    IF c.exc # NoExc THEN c
    ELSE IF Matches(c.val, value, is_search)
    THEN [c EXCEPT !.ret = "row", !.out = <<hs[i]>>]
    ELSE ScanRun(c, hideAt, rs, hs, i + 1, value, column, is_search)

ScanRun(r, hideAt, rs, hs, i, value, column, is_search) ==
    IF i > Len(rs) THEN [r EXCEPT !.ret = "None"]
    ELSE ScanTest(ColumnValueRun(r, hideAt, rs[i], column), hideAt, rs, hs, i,
                  value, column, is_search)

\* get_row's for loop drawing from get_total_rows_elements
RECURSIVE GetRowGen(_, _, _, _, _)
GetRowAfterNext(np, hideAt, value, column, is_search) ==
    IF np.exc # NoExc THEN np
    ELSE IF np.ret = "True" THEN GetRowGen(np, hideAt, value, column, is_search)
    ELSE Raise(np, RowNotFound)

GetRowAfterScan(s, hideAt, value, column, is_search) ==
    IF s.exc # NoExc \/ s.ret = "row" THEN s
    ELSE GetRowAfterNext(NextPageRun(s, hideAt), hideAt, value, column,
                         is_search)

GetRowAfterWait(w, hideAt, value, column, is_search) ==
    IF w.exc # NoExc THEN w
    ELSE GetRowAfterScan(
             ScanRun(FindRows(w), hideAt, PageRows(w.page), FoundAt(w), 1,
                     value, column, is_search),
             hideAt, value, column, is_search)

GetRowGen(r, hideAt, value, column, is_search) ==
    GetRowAfterWait(WaitTable(r, hideAt), hideAt, value, column, is_search)

\* get_row: its own wait, then the loop
GetRowRun(r, hideAt, value, column, is_search) ==
    GetRowGen(WaitTable(r, hideAt), hideAt, value, column, is_search)

\* get_column_list's append of _column_value for the rows of one page
RECURSIVE CellsRun(_, _, _, _, _)
CellsAppend(c, vals, hideAt, rs, i, column) ==
    IF c.exc # NoExc THEN c
    ELSE CellsRun([c EXCEPT !.val = Append(vals, c.val)], hideAt, rs, i + 1,
                  column)

CellsRun(r, hideAt, rs, i, column) ==
    IF i > Len(rs) \/ r.exc # NoExc THEN r
    ELSE CellsAppend(ColumnValueRun(r, hideAt, rs[i], column), r.val, hideAt,
                     rs, i, column)

\* get_column_list: the loop over get_total_rows_elements
RECURSIVE ColumnListRun(_, _, _)
ColumnListAfterNext(np, hideAt, column) ==
    IF np.exc # NoExc THEN np
    ELSE IF np.ret = "True" THEN ColumnListRun(np, hideAt, column)
    ELSE [np EXCEPT !.ret = "list"]

ColumnListAfterWait(w, hideAt, column) ==
    IF w.exc # NoExc THEN w
    ELSE ColumnListAfterNext(
             NextPageRun(CellsRun(FindRows(w), hideAt, PageRows(w.page), 1,
                                  column), hideAt),
             hideAt, column)

ColumnListRun(r, hideAt, column) ==
    ColumnListAfterWait(WaitTable(r, hideAt), hideAt, column)

\* the table re-rendering: every row element is replaced and page 1 shown
Rerender(r) == [Log(r, "rerender", <<>>) EXCEPT !.page = 1]

\* _wait_to_be_stale(element): wait.until(staleness_of(element)), with the
\* TimeoutException logged and dropped
WaitToBeStale(r, replaced) ==
    IF r.exc # NoExc THEN r
    ELSE IF replaced THEN Log(Rerender(r), "stale", <<>>)
    ELSE Log(r, "stale_timeout", <<>>)

\* search after the text was typed and the table had the time to react:
\* rows[0] of what is shown, the staleness wait and get_list_of_rows
SearchAfterTyping(shown, hideAt, rerender) ==
    IF PageRows(shown.page) = <<>> THEN Raise(shown, IndexError)
    ELSE ListRun(WaitToBeStale(
                     Log(shown, "find_first", <<PageRows(shown.page)[1].id>>),
                     rerender = "late"),
                 hideAt, <<>>)

SearchTyped(typed, hideAt, rerender) ==
    SearchAfterTyping(IF rerender = "early" THEN Rerender(typed) ELSE typed,
                      hideAt, rerender)

SearchAfterWait(w, hideAt, rerender) ==
    IF w.exc # NoExc THEN w
    ELSE SearchTyped(Log(w, "enter_text", <<>>), hideAt, rerender)

\* search(text): the wait, the text typed into the search box, the first
\* row element found after that, the staleness wait on it, and then
\* get_list_of_rows.  The table re-renders right after the text was typed
\* ("early"), during the staleness wait ("late"), or not within the wait's
\* timeout ("never"); the text matches every row
SearchRun(r, hideAt, rerender) ==
    SearchAfterWait(WaitTable(r, hideAt), hideAt, rerender)

\* what a run is to the row workflows: the walk of their get_row call
AsWalk(r) ==
    Walk(r.exc, [k \in DOMAIN r.out |-> r.out[k].id],
         Cardinality({i \in DOMAIN r.tr : r.tr[i].ev = "click_next"}),
         <<>>, r.page)

TracedCall(op, value, hideAt, r) ==
    [op |-> op, value |-> value, hideAt |-> hideAt, trace |-> r.tr,
     ret |-> r.ret, exc |-> r.exc, out |-> r.out, val |-> r.val,
     startPage |-> curPage, endPage |-> r.page]

TracedStep(op, value, hideAt, r) ==
    /\ lastOp' = TracedCall(op, value, hideAt, r)
    /\ curPage' = r.page
    /\ UNCHANGED <<tableVars, headers, colOp, locators, popup, modal,
                   container, hostVars>>

get_list_of_rows_traced(hideAt) ==
    TracedStep("get_list_of_rows", <<>>, hideAt,
               ListRun(StartRun(curPage), hideAt, <<>>))

get_total_rows_elements_traced(hideAt) ==
    TracedStep("get_total_rows_elements", <<>>, hideAt,
               StreamRun(StartRun(curPage), hideAt, <<>>))

get_row_traced(hideAt, value, is_search) ==
    TracedStep("get_row", value, hideAt,
               GetRowRun(StartRun(curPage), hideAt, value, S_name, is_search))

get_column_list_traced(hideAt, column) ==
    TracedStep("get_column_list", column, hideAt,
               ColumnListRun(StartRun(curPage), hideAt, column))

column_value_traced(hideAt, i, column) ==
    /\ i \in DOMAIN PageRows(curPage)
    /\ TracedStep("_column_value", column, hideAt,
                  ColumnValueRun(StartRun(curPage), hideAt,
                                 PageRows(curPage)[i], column))

search_traced(hideAt, rerender) ==
    TracedStep("search", rerender, hideAt,
               SearchRun(StartRun(curPage), hideAt, rerender))

UpdateStatusTraced(hideAt, input_name, g, r) ==
    /\ lastOp' = TracedCall("update_status", input_name, hideAt,
                            [g EXCEPT !.ret = r.ret])
    /\ curPage' = g.page
    /\ rows' = r.rows
    /\ UNCHANGED <<pageSize, lastMode, tableVisible, headers, colOp,
                   locators, popup, modal, container, hostVars>>

UpdateStatusAfterGetRow(hideAt, input_name, enable, g) ==
    UpdateStatusTraced(hideAt, input_name, g, UpdateStatusOf(AsWalk(g), enable))

\* update_status: get_row, then the label and the toggle of the row found
update_status_traced(hideAt, input_name, enable) ==
    UpdateStatusAfterGetRow(
        hideAt, input_name, enable,
        GetRowRun(StartRun(curPage), hideAt, input_name, S_name, FALSE))

DeleteRowTraced(hideAt, input_name, g, r) ==
    /\ lastOp' = TracedCall("delete_row", input_name, hideAt,
                            [g EXCEPT !.ret = r.ret, !.exc = r.exc])
    /\ curPage' = g.page
    /\ rows' = r.rows
    /\ popup' = r.popup
    /\ UNCHANGED <<pageSize, lastMode, tableVisible, headers, colOp,
                   locators, modal, container, hostVars>>

DeleteRowAfterGetRow(hideAt, input_name, action, g) ==
    DeleteRowTraced(hideAt, input_name, g,
                    CatchAll(DeleteRowSteps(AsWalk(g), curPage, locators,
                                            popup, action, TRUE, TRUE)))

\* delete_row: the wait, get_row, then the popup steps, all inside the try
delete_row_traced(hideAt, input_name, action) ==
    DeleteRowAfterGetRow(
        hideAt, input_name, action,
        GetRowRun(WaitTable(StartRun(curPage), hideAt), hideAt, input_name,
                  S_name, FALSE))

\* the tables of the traces: up to MaxRows rows named in turn
TraceNames == <<S_FooWs, S_FooBar, S_foo>>

TraceTables ==
    {MkRows([i \in 1..n |-> TraceNames[((i - 1) % Len(TraceNames)) + 1]]) :
        n \in 0..MaxRows}

Rerenders == {"early", "late", "never"}

InitTrace ==
    /\ HostInit
    /\ rows \in TraceTables
    /\ pageSize \in 1..MaxPageSize
    /\ lastMode = "disabled"
    /\ tableVisible = TRUE
    /\ curPage = 1
    /\ headers = FixedHeaders
    /\ colOp = NoColumnCall
    /\ lastOp = NoCall
    /\ locators = TableLocators
    /\ popup = FALSE
    /\ modal = FALSE
    /\ container = NoContainer

NextTrace ==
    \E hideAt \in 0..MaxWaits :
        \/ get_list_of_rows_traced(hideAt)
        \/ get_total_rows_elements_traced(hideAt)
        \/ \E value \in Values, is_search \in BOOLEAN :
               get_row_traced(hideAt, value, is_search)
        \/ get_column_list_traced(hideAt, S_name)
        \/ \E column \in {S_name, S_Status} :
               column_value_traced(hideAt, 1, column)
        \/ \E rerender \in Rerenders : search_traced(hideAt, rerender)
        \/ \E enable \in BOOLEAN :
               update_status_traced(hideAt, S_FooBar, enable)
        \/ \E action \in {None, "delete"} :
               delete_row_traced(hideAt, S_FooBar, action)

SpecTrace == InitTrace /\ [][NextTrace]_vars

(***************************************************************************)
(* Claims about the order of the steps of a call.                          *)
(***************************************************************************)
\* the positions of a kind of step in the trace of the last call
Positions(ev) == {i \in DOMAIN lastOp.trace : lastOp.trace[i].ev = ev}

MaxOf(S) == IF S = {} THEN 0 ELSE CHOOSE x \in S : \A y \in S : y <= x

\* the position of the last click on "next" of the last call, 0 for none
LastClick == MaxOf(Positions("click_next"))

\* the ids the searches for the row elements found, in the order found
RECURSIVE FoundIds(_)
FoundIds(tr) ==
    IF tr = <<>> THEN <<>>
    ELSE (IF Head(tr).ev = "find_rows" THEN Head(tr).ids ELSE <<>>)
         \o FoundIds(Tail(tr))

\* C23: search returns rows enumerated only after the table re-rendered:
\* the row element it waits on was found before the search text took
\* effect, and the enumeration of get_list_of_rows starts only after that
\* element was seen stale.
C23_SearchEnumeratesAfterRerender ==
    (lastOp.op = "search" /\ lastOp.ret = "list") =>
        /\ \A f \in Positions("find_first"), r \in Positions("rerender") : f < r
        /\ \E s \in Positions("stale") : \A e \in Positions("find_rows") : s < e

\* C24 as stated: every row handle get_list_of_rows or search returns was
\* obtained after the last click on "next" the call issued.
C24_HandlesAfterLastClick ==
    (lastOp.op \in {"get_list_of_rows", "search"} /\ lastOp.ret = "list") =>
        \A k \in DOMAIN lastOp.out : lastOp.out[k].at > LastClick

\* C24: get_list_of_rows and search return the handles of every page they
\* read, kept across their own clicks on "next": a page's handles were
\* obtained while that page was shown, after the click that led to it and
\* before the click that left it, so that only the handles of the last page
\* read were obtained after the last click the call issued.
C24_HandlesOfEveryPageKept ==
    (lastOp.op \in {"get_list_of_rows", "search"} /\ lastOp.ret = "list") =>
        LET tr == lastOp.trace
            first == tr[CHOOSE i \in Positions("find_rows") :
                            \A j \in Positions("find_rows") : i <= j].page
        IN  /\ [k \in DOMAIN lastOp.out |-> lastOp.out[k].id] = FoundIds(tr)
            /\ \A k \in DOMAIN lastOp.out :
                   LET at == lastOp.out[k].at IN
                   /\ at \in Positions("find_rows")
                   /\ \E n \in DOMAIN tr[at].ids : tr[at].ids[n] = lastOp.out[k].id
                   /\ Cardinality({c \in Positions("click_next") : c < at})
                          = tr[at].page - first
                   /\ at > LastClick <=> tr[at].page = lastOp.endPage

C24_Witness ==
    /\ lastOp.op = "get_list_of_rows"
    /\ lastOp.ret = "list"
    /\ Cardinality(Positions("click_next")) = 2
    /\ Len(lastOp.out) = 3
    /\ lastOp.out[1].at < LastClick

\* C25: every operation that reads rows waits for the table container to
\* be displayed before it looks for the row elements the first time and
\* again on each further page, after the click that led there; a wait that
\* fails ends the operation, with no row looked for or read after it.
C25_WaitBeforeEveryPage ==
    lastOp.op # "none" =>
        LET tr == lastOp.trace IN
        /\ tr # <<>>
        /\ tr[1].ev \in {"wait", "wait_failed"}
        /\ \A i \in Positions("find_rows") \cup Positions("find_first")
                      \cup Positions("read_cell") :
               \E j \in Positions("wait") :
                   /\ j < i
                   /\ \A c \in Positions("click_next") : c < j \/ c > i
        /\ \A i \in Positions("wait_failed") :
               /\ i = Len(tr)
               /\ \/ lastOp.exc = Timeout
                  \/ lastOp.op = "delete_row" /\ lastOp.ret = "False"

C25_Witness ==
    /\ lastOp.op = "get_row"
    /\ Positions("click_next") # {}
    /\ Positions("wait_failed") = {Len(lastOp.trace)}
    /\ Positions("read_cell") # {}
====
